---- MODULE Spec2Model ----
(***************************************************************************)
(* Verification model of the payday reconciliation pipeline:               *)
(*   - the Postgres offset store (payday_postgres/src/offset.rs),          *)
(*   - the OnChainInvoice and LightningInvoice aggregates                  *)
(*     (payday_core/src/aggregate),                                        *)
(*   - the on-chain event consumer (payday/src/on_chain_processor.rs,      *)
(*     payday/src/on_chain_service.rs,                                     *)
(*     payday_core/src/processor/on_chain_processor.rs).                   *)
(*                                                                         *)
(* Specifications:                                                         *)
(*   OffsetSpec      offset store, calls issued one after another          *)
(*   OffsetConcSpec  two set_offset calls interleaved at their await points*)
(*   AggSpec         commands executed on the two invoice aggregates       *)
(*   Spec            the on-chain consumer loop                            *)
(*   RedeliverySpec  the consumer loop, one event watched across deliveries*)
(*   StartSpec       OnChainEventProcessor::start with the node adapters   *)
(*   StartLiveSpec   StartSpec with the fairness of the tokio runtime      *)
(*   AdapterSpec     one node adapter (payday_node_lnd/src/lnd.rs) called  *)
(*                   on its own, the caller owning the receiver            *)
(*   FnSpec          the conversions between node data, events and         *)
(*                   commands, one application per behaviour               *)
(*   EventStoreSpec  two writers executing through the event store         *)
(*   TaskSpec        the task queue (payday_surrealdb/src/task.rs)         *)
(*   TaskLiveSpec    TaskSpec with the fairness of the processor's loop    *)
(*   WorkersSpec     two task processors polling one task table            *)
(*   ProcessorSpec   process_event with a handler that may fail            *)
(*   InvoiceSpec     commands executed on the composite Invoice aggregate  *)
(***************************************************************************)
EXTENDS Integers, Sequences, FiniteSets, TLC

VARIABLES
    current_offset,   \* OffsetStore.current_offset: the cache, key -> Option<u64>
    offsets_table,    \* the durable table: key -> Option<i64> (column current_offset)
    store_prefix,     \* OffsetStore.prefix of the store instance
    os_base,          \* history: value readable from the row when the instance was built
    os_max,           \* history: largest value of a set that returned Ok on this instance
    os_low,           \* history: an Ok set below the largest one happened on this instance
    os_last,          \* history: the last call on the store and its outcome
    task,             \* OffsetConcSpec: the two in-flight set_offset calls
    oc_log,           \* event log of the OnChainInvoice aggregates, by address
    ln_log,           \* event log of the LightningInvoice aggregates, by invoice id
    agg_kind,         \* AggSpec: the aggregate type the run sends its commands to
    agg_last,         \* history: per aggregate, the last command executed and its outcome
    watched,          \* history: a confirmed event whose execute failed, not executed since
    pipe_last,        \* history: the last event the consumer processed
    coord,            \* OnChainEventProcessor::start: position, spawned tasks, consumer
    adapters,         \* per node: the phase of its adapter and the events it has to send
    chan,             \* the shared channel: the events sent and not yet received
    traffic,          \* history: the events each adapter sent and the consumer received
    applied,          \* FnSpec: the conversion applied last, its input and its output
    events_table,     \* EventStoreSpec: the rows of the table payday.events
    writers,          \* EventStoreSpec: per writer, the execute it is running
    task_table,       \* TaskSpec: the rows of the task table, task id -> SurrealTask
    processor,        \* TaskSpec: the loop of SurrealTaskProcessor::process
    clock,            \* TaskSpec: now(), in milliseconds
    workers,          \* WorkersSpec: per task processor, the batch it holds
    inv_log,          \* InvoiceSpec: the events of each composite Invoice aggregate
    inv_last          \* InvoiceSpec: history, the execution made last

vars == <<current_offset, offsets_table, store_prefix, os_base, os_max, os_low, os_last,
          task, oc_log, ln_log, agg_kind, agg_last, watched, pipe_last,
          coord, adapters, chan, traffic, applied, events_table, writers,
          task_table, processor, clock, workers, inv_log, inv_last>>

offset_vars == <<current_offset, offsets_table, store_prefix>>
os_hist_vars == <<os_base, os_max, os_low, os_last>>
agg_vars == <<oc_log, ln_log, agg_kind, agg_last>>
pipe_vars == <<watched, pipe_last>>
start_vars == <<coord, adapters, chan, traffic>>
store_vars == <<events_table, writers>>
queue_vars == <<task_table, processor, clock, workers>>
invoice_vars == <<inv_log, inv_last>>
aux_vars == <<applied, store_vars, queue_vars, invoice_vars>>

\* no coordinator is started
NoStart ==
    /\ coord = <<>>
    /\ adapters = <<>>
    /\ chan = <<>>
    /\ traffic = <<>>

\* no conversion was applied
NoStore ==
    /\ events_table = {}
    /\ writers = <<>>

NoInvoices ==
    /\ inv_log = <<>>
    /\ inv_last = <<>>

NoQueue ==
    /\ task_table = <<>>
    /\ processor = <<>>
    /\ clock = 0
    /\ workers = <<>>

NoAux ==
    /\ applied = [fn |-> "none"]
    /\ NoStore
    /\ NoQueue
    /\ NoInvoices

----------------------------------------------------------------------------
(* Bounds *)

U64Bits == 3          \* width of the model's u64 / i64 (the code's is 64)
MaxAmount == 2        \* largest cent_amount of a command
MaxConfirmations == 1 \* largest confirmation count of a command
MaxHeight == 1        \* largest block height of an on-chain event
MaxLog == 3           \* longest event log of one aggregate
ChannelCapacity == 2  \* capacity of the shared channel (100 in start())
MaxCatchUp == 2       \* most catch-up events one node returns at a subscription
MaxLive == 1          \* most live events the stream of one node yields
MaxSettleIndex == 2    \* largest settle_index of a Lightning invoice update
MaxOutputs == 2        \* most outputs of one transaction
MaxRetry == 3          \* largest retry count of a retry policy
MaxDelaySecs == 1      \* largest delay of a retry policy, in seconds
NumHandlers == 2       \* handlers registered with the task processor
MaxTypes == 2          \* most payment types of one CreateInvoice command
MaxCreates == 2        \* most Created events of one composite Invoice

----------------------------------------------------------------------------
(* Option<T> *)

None == [some |-> FALSE, v |-> 0]
Some(x) == [some |-> TRUE, v |-> x]
UnwrapOr(o, d) == IF o.some THEN o.v ELSE d
Max2(a, b) == IF a >= b THEN a ELSE b

----------------------------------------------------------------------------
(* Integer conversions of the offset store *)

U64 == 0 .. (2^U64Bits - 1)

\* `offset as i64`: two's complement reinterpretation
AsI64(x) == IF x >= 2^(U64Bits - 1) THEN x - 2^U64Bits ELSE x

\* `u64::try_from(r).ok()`
TryFromI64(r) == IF r >= 0 THEN Some(r) ELSE None

----------------------------------------------------------------------------
(* OffsetStore *)

OffsetIds == {"A"}
NoPrefix == ""

with_prefix(prefix, id) == <<prefix, id>>

KeysOf(prefix, ids) == {with_prefix(prefix, id) : id \in ids}

get_cached(cache, key) == cache[key]

set_cached_always(cache, key, offset) == [cache EXCEPT ![key] = Some(offset)]

set_cached(cache, key, offset) ==
    IF offset <= UnwrapOr(get_cached(cache, key), 0)
    THEN cache
    ELSE [cache EXCEPT ![key] = Some(offset)]

\* SELECT current_offset ... fetch_optional, then u64::try_from
select_row(table, key) ==
    IF table[key].some THEN TryFromI64(table[key].v) ELSE None

\* INSERT ... ON CONFLICT (id) DO UPDATE SET current_offset = $2, bound to offset as i64
upsert_row(table, key, offset) == [table EXCEPT ![key] = Some(AsI64(offset))]

\* select_ok = FALSE: the SELECT fails with a storage error
get_offset_internal(cache, table, key, select_ok) ==
    IF get_cached(cache, key).some
    THEN [err |-> FALSE, val |-> get_cached(cache, key), cache |-> cache]
    ELSE IF ~select_ok
    THEN [err |-> TRUE, val |-> None, cache |-> cache]
    ELSE LET res == select_row(table, key) IN
         IF res.some
         THEN [err |-> FALSE, val |-> res, cache |-> set_cached(cache, key, res.v)]
         ELSE [err |-> FALSE, val |-> None, cache |-> cache]

set_offset_internal_cache_first(cache, table, key, offset, select_ok, upsert_ok) ==
    LET g == get_offset_internal(cache, table, key, select_ok) IN
    IF g.err
    THEN [err |-> TRUE, stage |-> "select", cache |-> g.cache, table |-> table,
          wrote |-> FALSE]
    ELSE IF (~g.val.some) \/ g.val.v <= offset
    THEN IF ~upsert_ok
         THEN [err |-> TRUE, stage |-> "upsert",
               cache |-> set_cached(g.cache, key, offset), table |-> table,
               wrote |-> FALSE]
         ELSE [err |-> FALSE, stage |-> "done",
               cache |-> set_cached(g.cache, key, offset),
               table |-> upsert_row(table, key, offset), wrote |-> TRUE]
    ELSE [err |-> FALSE, stage |-> "done", cache |-> set_cached(g.cache, key, offset),
          table |-> table, wrote |-> FALSE]

\* upsert_ok = FALSE: the upsert fails with a storage error
set_offset_internal(cache, table, key, offset, select_ok, upsert_ok) ==
    LET g == get_offset_internal(cache, table, key, select_ok) IN
    IF g.err
    THEN [err |-> TRUE, stage |-> "select", cache |-> g.cache, table |-> table,
          wrote |-> FALSE]
    ELSE IF (~g.val.some) \/ g.val.v <= offset
    THEN IF ~upsert_ok
         THEN [err |-> TRUE, stage |-> "upsert", cache |-> g.cache, table |-> table,
               wrote |-> FALSE]
         ELSE [err |-> FALSE, stage |-> "done",
               cache |-> set_cached(g.cache, key, offset),
               table |-> upsert_row(table, key, offset), wrote |-> TRUE]
    ELSE [err |-> FALSE, stage |-> "done", cache |-> set_cached(g.cache, key, offset),
          table |-> table, wrote |-> FALSE]

\* OffsetStoreApi::get_offset: Offset{id, offset}, 0 when there is none
get_offset(cache, table, key, select_ok) ==
    LET g == get_offset_internal(cache, table, key, select_ok) IN
    [err |-> g.err, offset |-> UnwrapOr(g.val, 0), cache |-> g.cache]

\* OffsetStoreApi::set_offset
set_offset(cache, table, key, offset, select_ok, upsert_ok) ==
    set_offset_internal(cache, table, key, offset, select_ok, upsert_ok)

\* OffsetStore::new: an empty cache over the existing table
new_cache(keys) == [k \in keys |-> None]

NoCall == [op |-> "none", key |-> <<"", "">>, arg |-> 0, err |-> FALSE, stage |-> "none",
           ret |-> 0, pre_cache |-> None, pre_row |-> None, wrote |-> FALSE]

----------------------------------------------------------------------------
(* OffsetSpec: get_offset and set_offset called one after another on one   *)
(* store; Restart drops the instance (its cache) and builds a new one.     *)

OffsetKeys == KeysOf(NoPrefix, OffsetIds)

OffsetInit ==
    /\ store_prefix = NoPrefix
    /\ current_offset = new_cache(OffsetKeys)
    /\ offsets_table = [k \in OffsetKeys |-> None]
    /\ os_base = [k \in OffsetKeys |-> 0]
    /\ os_max = [k \in OffsetKeys |-> None]
    /\ os_low = [k \in OffsetKeys |-> FALSE]
    /\ os_last = NoCall
    /\ task = <<>>
    /\ NoStart
    /\ NoAux
    /\ oc_log = <<>>
    /\ ln_log = <<>>
    /\ agg_kind = "none"
    /\ agg_last = <<>>
    /\ watched = None
    /\ pipe_last = <<>>

SetOffset(id, offset, select_ok, upsert_ok) ==
    LET key == with_prefix(store_prefix, id)
        r == set_offset(current_offset, offsets_table, key, offset, select_ok, upsert_ok)
    IN
    /\ current_offset' = r.cache
    /\ offsets_table' = r.table
    /\ os_max' = IF r.err THEN os_max
                 ELSE [os_max EXCEPT ![key] = Some(Max2(offset, UnwrapOr(os_max[key], 0)))]
    /\ os_low' = IF ~r.err /\ os_max[key].some /\ offset < os_max[key].v
                 THEN [os_low EXCEPT ![key] = TRUE] ELSE os_low
    /\ os_last' = [op |-> "set", key |-> key, arg |-> offset, err |-> r.err,
                   stage |-> r.stage, ret |-> 0, pre_cache |-> current_offset[key],
                   pre_row |-> offsets_table[key], wrote |-> r.wrote]
    /\ UNCHANGED <<store_prefix, os_base, task, start_vars, aux_vars, agg_vars, pipe_vars>>

GetOffset(id, select_ok) ==
    LET key == with_prefix(store_prefix, id)
        r == get_offset(current_offset, offsets_table, key, select_ok)
    IN
    /\ current_offset' = r.cache
    /\ os_last' = [op |-> "get", key |-> key, arg |-> 0, err |-> r.err,
                   stage |-> IF r.err THEN "select" ELSE "done", ret |-> r.offset,
                   pre_cache |-> current_offset[key], pre_row |-> offsets_table[key],
                   wrote |-> FALSE]
    /\ UNCHANGED <<offsets_table, store_prefix, os_base, os_max, os_low, task, start_vars, aux_vars,
                   agg_vars, pipe_vars>>

\* process restart: OffsetStore::new over the same table
Restart ==
    /\ current_offset' = new_cache(OffsetKeys)
    /\ os_base' = [k \in OffsetKeys |-> UnwrapOr(select_row(offsets_table, k), 0)]
    /\ os_max' = [k \in OffsetKeys |-> None]
    /\ os_low' = [k \in OffsetKeys |-> FALSE]
    /\ os_last' = [NoCall EXCEPT !.op = "restart"]
    /\ UNCHANGED <<offsets_table, store_prefix, task, start_vars, aux_vars, agg_vars, pipe_vars>>

OffsetNext ==
    \/ \E id \in OffsetIds, offset \in U64, select_ok \in BOOLEAN, upsert_ok \in BOOLEAN :
          SetOffset(id, offset, select_ok, upsert_ok)
    \/ \E id \in OffsetIds, select_ok \in BOOLEAN : GetOffset(id, select_ok)
    \/ Restart

OffsetSpec == OffsetInit /\ [][OffsetNext]_vars

----------------------------------------------------------------------------
(* Claims on OffsetSpec *)

LastKey == os_last.key

\* C1: a get that returns Ok returns the largest value of the sets that returned
\* Ok on this store instance (the value readable from the durable row when the
\* instance was built counts as the starting value: 0 for an id without a row, so
\* that a get of a never-set id returns 0 and set 2; set 1; set 3 is followed by
\* get = 3).
C1_GetReturnsMax ==
    (os_last.op = "get" /\ ~os_last.err)
        => os_last.ret = Max2(os_base[LastKey], UnwrapOr(os_max[LastKey], 0))

\* C1 witness: a get after a higher and then a lower set on an id that had no row.
C1_Witness ==
    /\ os_last.op = "get" /\ ~os_last.err
    /\ os_base[LastKey] = 0 /\ os_low[LastKey]
    /\ os_max[LastKey].some /\ os_last.ret = os_max[LastKey].v /\ os_last.ret > 1

\* C3: the durable row of an id never decreases from one call to the next, also
\* across Restart, and a set that returns Ok with a value lower than the stored one
\* writes nothing and leaves the cache at the stored value.
C3_RowNeverDecreases ==
    [][ /\ \A k \in OffsetKeys :
              offsets_table[k].some =>
                  /\ offsets_table'[k].some
                  /\ offsets_table'[k].v >= offsets_table[k].v
        /\ \A k \in OffsetKeys :
              ( /\ os_last'.op = "set" /\ os_last'.key = k /\ ~os_last'.err
                /\ os_last'.pre_row = offsets_table[k]
                /\ os_last'.pre_cache = current_offset[k]
                /\ select_row(offsets_table, k).some
                /\ os_last'.arg < select_row(offsets_table, k).v )
              => /\ offsets_table' = offsets_table
                 /\ current_offset'[k] = select_row(offsets_table, k)
      ]_vars

\* C4 as stated: after a set whose upsert failed the cache does not hold the value
\* of that set, and after a get whose durable read failed the cache has no entry.
C4_CacheNotUpdatedOnFailure ==
    /\ (os_last.op = "set" /\ os_last.err /\ os_last.stage = "upsert")
          => current_offset[LastKey] # Some(os_last.arg)
    /\ (os_last.op = "get" /\ os_last.err)
          => ~current_offset[LastKey].some

\* C4 amended: a set whose upsert failed returns the error, writes no row and skips
\* its cache write: the cache entry is the one from before the call, or, on a cache
\* miss, the value the call read from the durable row; a get whose durable read
\* failed returns the error and leaves the cache without an entry.
C4_FailedSetSkipsCacheWrite ==
    /\ (os_last.op = "set" /\ os_last.err /\ os_last.stage = "upsert")
          => /\ offsets_table[LastKey] = os_last.pre_row
             /\ IF os_last.pre_cache.some
                THEN current_offset[LastKey] = os_last.pre_cache
                ELSE current_offset[LastKey] \in
                        {None, select_row([k \in {LastKey} |-> os_last.pre_row], LastKey)}
             /\ (current_offset[LastKey] = Some(os_last.arg)
                    => \/ os_last.pre_cache = Some(os_last.arg)
                       \/ os_last.pre_row = Some(os_last.arg))
    /\ (os_last.op = "get" /\ os_last.err)
          => /\ ~current_offset[LastKey].some
             /\ ~os_last.pre_cache.some
             /\ offsets_table[LastKey] = os_last.pre_row

\* C4 witness: a set above the stored value whose upsert failed.
C4_Witness ==
    /\ os_last.op = "set" /\ os_last.err /\ os_last.stage = "upsert"
    /\ os_last.pre_row.some /\ os_last.pre_row.v >= 0
    /\ os_last.arg > os_last.pre_row.v
    /\ current_offset[LastKey] # Some(os_last.arg)

----------------------------------------------------------------------------
(* OffsetConcSpec: two tasks call set_offset on the same id of one store.  *)
(* A task is suspended at every lock().await and every query, so each lock *)
(* section and each query is one step; the steps of the two calls          *)
(* interleave freely.                                                      *)

Tasks == {1, 2}
ConcKey == with_prefix(NoPrefix, "A")

IdleTask == [pc |-> "idle", offset |-> 0, existing |-> None, dbval |-> 0, err |-> FALSE]

OffsetConcInit ==
    /\ store_prefix = NoPrefix
    /\ current_offset = new_cache({ConcKey})
    /\ offsets_table = [k \in {ConcKey} |-> None]
    /\ task = [t \in Tasks |-> IdleTask]
    /\ NoStart
    /\ NoAux
    /\ os_base = <<>>
    /\ os_max = <<>>
    /\ os_low = <<>>
    /\ os_last = NoCall
    /\ oc_log = <<>>
    /\ ln_log = <<>>
    /\ agg_kind = "none"
    /\ agg_last = <<>>
    /\ watched = None
    /\ pipe_last = <<>>

ConcFrame == UNCHANGED <<store_prefix, os_hist_vars, agg_vars, pipe_vars, start_vars, aux_vars>>

\* set_offset(id, offset) is called
CallSet(t, offset) ==
    /\ task[t].pc = "idle"
    /\ task' = [task EXCEPT ![t] = [IdleTask EXCEPT !.pc = "get_cached", !.offset = offset]]
    /\ UNCHANGED <<current_offset, offsets_table>>
    /\ ConcFrame

\* get_offset_internal: get_cached, return on a hit
StepGetCached(t) ==
    /\ task[t].pc = "get_cached"
    /\ task' = [task EXCEPT ![t] =
                  IF get_cached(current_offset, ConcKey).some
                  THEN [@ EXCEPT !.pc = "upsert",
                                 !.existing = get_cached(current_offset, ConcKey)]
                  ELSE [@ EXCEPT !.pc = "select"]]
    /\ UNCHANGED <<current_offset, offsets_table>>
    /\ ConcFrame

\* get_offset_internal: the SELECT
StepSelect(t, select_ok) ==
    /\ task[t].pc = "select"
    /\ task' = [task EXCEPT ![t] =
                  IF ~select_ok
                  THEN [@ EXCEPT !.pc = "done", !.err = TRUE]
                  ELSE IF select_row(offsets_table, ConcKey).some
                  THEN [@ EXCEPT !.pc = "fill_check",
                                 !.dbval = select_row(offsets_table, ConcKey).v]
                  ELSE [@ EXCEPT !.pc = "upsert", !.existing = None]]
    /\ UNCHANGED <<current_offset, offsets_table>>
    /\ ConcFrame

\* get_offset_internal: set_cached(id, row), its get_cached
StepFillCheck(t) ==
    /\ task[t].pc = "fill_check"
    /\ task' = [task EXCEPT ![t] =
                  IF task[t].dbval <= UnwrapOr(get_cached(current_offset, ConcKey), 0)
                  THEN [@ EXCEPT !.pc = "upsert", !.existing = Some(task[t].dbval)]
                  ELSE [@ EXCEPT !.pc = "fill_insert"]]
    /\ UNCHANGED <<current_offset, offsets_table>>
    /\ ConcFrame

\* get_offset_internal: set_cached(id, row), its insert
StepFillInsert(t) ==
    /\ task[t].pc = "fill_insert"
    /\ current_offset' = [current_offset EXCEPT ![ConcKey] = Some(task[t].dbval)]
    /\ task' = [task EXCEPT ![t] = [@ EXCEPT !.pc = "upsert",
                                             !.existing = Some(task[t].dbval)]]
    /\ UNCHANGED offsets_table
    /\ ConcFrame

\* set_offset_internal: the upsert when existing is none or <= offset
StepUpsert(t, upsert_ok) ==
    /\ task[t].pc = "upsert"
    /\ IF (~task[t].existing.some) \/ task[t].existing.v <= task[t].offset
       THEN IF ~upsert_ok
            THEN /\ task' = [task EXCEPT ![t] = [@ EXCEPT !.pc = "done", !.err = TRUE]]
                 /\ UNCHANGED offsets_table
            ELSE /\ offsets_table' = upsert_row(offsets_table, ConcKey, task[t].offset)
                 /\ task' = [task EXCEPT ![t] = [@ EXCEPT !.pc = "cache_check"]]
       ELSE /\ task' = [task EXCEPT ![t] = [@ EXCEPT !.pc = "cache_check"]]
            /\ UNCHANGED offsets_table
    /\ UNCHANGED current_offset
    /\ ConcFrame

\* set_offset_internal: set_cached(id, offset), its get_cached
StepCacheCheck(t) ==
    /\ task[t].pc = "cache_check"
    /\ task' = [task EXCEPT ![t] =
                  IF task[t].offset <= UnwrapOr(get_cached(current_offset, ConcKey), 0)
                  THEN [@ EXCEPT !.pc = "done"]
                  ELSE [@ EXCEPT !.pc = "cache_insert"]]
    /\ UNCHANGED <<current_offset, offsets_table>>
    /\ ConcFrame

\* set_offset_internal: set_cached(id, offset), its insert
StepCacheInsert(t) ==
    /\ task[t].pc = "cache_insert"
    /\ current_offset' = [current_offset EXCEPT ![ConcKey] = Some(task[t].offset)]
    /\ task' = [task EXCEPT ![t] = [@ EXCEPT !.pc = "done"]]
    /\ UNCHANGED offsets_table
    /\ ConcFrame

OffsetConcNext ==
    \/ \E t \in Tasks, offset \in U64 : CallSet(t, offset)
    \/ \E t \in Tasks : StepGetCached(t)
    \/ \E t \in Tasks, select_ok \in BOOLEAN : StepSelect(t, select_ok)
    \/ \E t \in Tasks : StepFillCheck(t)
    \/ \E t \in Tasks : StepFillInsert(t)
    \/ \E t \in Tasks, upsert_ok \in BOOLEAN : StepUpsert(t, upsert_ok)
    \/ \E t \in Tasks : StepCacheCheck(t)
    \/ \E t \in Tasks : StepCacheInsert(t)

OffsetConcSpec == OffsetConcInit /\ [][OffsetConcNext]_vars

BothReturnedOk == \A t \in Tasks : task[t].pc = "done" /\ ~task[t].err

ConcMax == Max2(task[1].offset, task[2].offset)

\* C2: once two concurrent set(id, a) and set(id, b) on a store without a value for
\* id have both returned Ok, the cached value and the durable row both hold
\* max(a, b) (the row as the upsert encodes it) and get(id) returns max(a, b).
C2_ConcurrentSetsConverge ==
    BothReturnedOk =>
        /\ UnwrapOr(current_offset[ConcKey], 0) = ConcMax
        /\ offsets_table[ConcKey] = Some(AsI64(ConcMax))
        /\ get_offset(current_offset, offsets_table, ConcKey, TRUE).offset = ConcMax

----------------------------------------------------------------------------
(* Amount, Currency *)

Currencies == {"BTC", "USD"}
Amount_new(currency, cent_amount) == [currency |-> currency, cent_amount |-> cent_amount]
Amount_zero(currency) == Amount_new(currency, 0)
Amount_sats(sats) == Amount_new("BTC", sats)
Amount_default == Amount_new("BTC", 0)

BtcAmounts == {Amount_sats(n) : n \in 0 .. MaxAmount}
Amounts == {Amount_new(c, n) : c \in Currencies, n \in 0 .. MaxAmount}

NoTx == [some |-> FALSE, v |-> ""]
SomeTx(tx) == [some |-> TRUE, v |-> tx]

Addrs == {"addr1"}
InvoiceIds == {"inv1"}
Nodes == {"node1", "node2"}
TxIds == {"tx1"}
Bolt11s == {"lntbs1"}

\* Ok(events), and Err(error) with the fields of the error
HandleOk(events) == [err |-> "", args |-> <<>>, events |-> events]
HandleErr(error, args) == [err |-> error, args |-> args, events |-> <<>>]

----------------------------------------------------------------------------
(* OnChainInvoice *)

OnChainInvoice_default ==
    [invoice_id |-> "", node_id |-> "", address |-> "",
     amount |-> Amount_zero("BTC"), received_amount |-> Amount_zero("BTC"),
     confirmations |-> 0, transaction_id |-> NoTx,
     underpayment |-> FALSE, overpayment |-> FALSE, paid |-> FALSE]

OnChainCommands ==
    [type : {"CreateInvoice"}, invoice_id : InvoiceIds, node_id : {"node1"},
     amount : Amounts, address : Addrs]
    \cup [type : {"SetPending"}, amount : BtcAmounts]
    \cup [type : {"SetConfirmed"}, confirmations : 0 .. MaxConfirmations,
          amount : BtcAmounts, transaction_id : TxIds]

\* a handle that does not look whether the invoice exists already
OnChainInvoice_handle_create_again(self, command) ==
    IF command.type = "CreateInvoice"
    THEN IF command.amount.currency # "BTC"
         THEN HandleErr("InvalidCurrency", <<command.amount.currency, "BTC">>)
         ELSE HandleOk(<<[type |-> "InvoiceCreated", invoice_id |-> command.invoice_id,
                          node_id |-> command.node_id, amount |-> command.amount,
                          address |-> command.address]>>)
    ELSE IF command.type = "SetPending"
    THEN IF self.received_amount.cent_amount > 0
         THEN HandleOk(<<>>)
         ELSE HandleOk(<<[type |-> "PaymentPending", received_amount |-> command.amount,
                          underpayment |->
                              command.amount.cent_amount < self.amount.cent_amount,
                          overpayment |->
                              command.amount.cent_amount > self.amount.cent_amount]>>)
    ELSE IF self.confirmations > 0
         THEN HandleOk(<<>>)
         ELSE HandleOk(<<[type |-> "PaymentConfirmed", received_amount |-> command.amount,
                          underpayment |->
                              command.amount.cent_amount < self.amount.cent_amount,
                          overpayment |->
                              command.amount.cent_amount > self.amount.cent_amount,
                          confirmations |-> command.confirmations,
                          transaction_id |-> command.transaction_id]>>)

\* a handle that lets SetConfirmed through on a confirmed invoice
OnChainInvoice_handle_confirm_again(self, command) ==
    IF command.type = "CreateInvoice"
    THEN IF command.amount.currency # "BTC"
         THEN HandleErr("InvalidCurrency", <<command.amount.currency, "BTC">>)
         ELSE IF self.invoice_id # ""
         THEN HandleErr("InvoiceAlreadyExists", <<command.invoice_id>>)
         ELSE HandleOk(<<[type |-> "InvoiceCreated", invoice_id |-> command.invoice_id,
                          node_id |-> command.node_id, amount |-> command.amount,
                          address |-> command.address]>>)
    ELSE IF command.type = "SetPending"
    THEN IF self.received_amount.cent_amount > 0
         THEN HandleOk(<<>>)
         ELSE HandleOk(<<[type |-> "PaymentPending", received_amount |-> command.amount,
                          underpayment |->
                              command.amount.cent_amount < self.amount.cent_amount,
                          overpayment |->
                              command.amount.cent_amount > self.amount.cent_amount]>>)
    ELSE HandleOk(<<[type |-> "PaymentConfirmed", received_amount |-> command.amount,
                          underpayment |->
                              command.amount.cent_amount < self.amount.cent_amount,
                          overpayment |->
                              command.amount.cent_amount > self.amount.cent_amount,
                          confirmations |-> command.confirmations,
                          transaction_id |-> command.transaction_id]>>)

OnChainInvoice_handle(self, command) ==
    IF command.type = "CreateInvoice"
    THEN IF command.amount.currency # "BTC"
         THEN HandleErr("InvalidCurrency", <<command.amount.currency, "BTC">>)
         ELSE IF self.invoice_id # ""
         THEN HandleErr("InvoiceAlreadyExists", <<command.invoice_id>>)
         ELSE HandleOk(<<[type |-> "InvoiceCreated", invoice_id |-> command.invoice_id,
                          node_id |-> command.node_id, amount |-> command.amount,
                          address |-> command.address]>>)
    ELSE IF command.type = "SetPending"
    THEN IF self.received_amount.cent_amount > 0
         THEN HandleOk(<<>>)
         ELSE HandleOk(<<[type |-> "PaymentPending", received_amount |-> command.amount,
                          underpayment |->
                              command.amount.cent_amount < self.amount.cent_amount,
                          overpayment |->
                              command.amount.cent_amount > self.amount.cent_amount]>>)
    ELSE IF self.confirmations > 0
         THEN HandleOk(<<>>)
         ELSE HandleOk(<<[type |-> "PaymentConfirmed", received_amount |-> command.amount,
                          underpayment |->
                              command.amount.cent_amount < self.amount.cent_amount,
                          overpayment |->
                              command.amount.cent_amount > self.amount.cent_amount,
                          confirmations |-> command.confirmations,
                          transaction_id |-> command.transaction_id]>>)

\* an apply that does not record the transaction of a confirmed payment
OnChainInvoice_apply_without_tx(self, event) ==
    IF event.type = "InvoiceCreated"
    THEN [self EXCEPT !.invoice_id = event.invoice_id, !.node_id = event.node_id,
                      !.amount = event.amount, !.address = event.address]
    ELSE IF event.type = "PaymentPending"
    THEN [self EXCEPT !.received_amount = event.received_amount,
                      !.underpayment = event.underpayment,
                      !.overpayment = event.overpayment]
    ELSE [self EXCEPT !.received_amount = event.received_amount,
                      !.underpayment = event.underpayment,
                      !.overpayment = event.overpayment,
                      !.confirmations = event.confirmations,
                      !.paid = TRUE]

OnChainInvoice_apply(self, event) ==
    IF event.type = "InvoiceCreated"
    THEN [self EXCEPT !.invoice_id = event.invoice_id, !.node_id = event.node_id,
                      !.amount = event.amount, !.address = event.address]
    ELSE IF event.type = "PaymentPending"
    THEN [self EXCEPT !.received_amount = event.received_amount,
                      !.underpayment = event.underpayment,
                      !.overpayment = event.overpayment]
    ELSE [self EXCEPT !.received_amount = event.received_amount,
                      !.underpayment = event.underpayment,
                      !.overpayment = event.overpayment,
                      !.confirmations = event.confirmations,
                      !.paid = TRUE,
                      !.transaction_id = SomeTx(event.transaction_id)]

RECURSIVE OnChainInvoice_fold(_, _)
OnChainInvoice_fold(self, events) ==
    IF events = <<>> THEN self
    ELSE OnChainInvoice_fold(OnChainInvoice_apply(self, Head(events)), Tail(events))

\* load: the state folded from the aggregate's log, starting at Default
OnChainInvoice_load(log) == OnChainInvoice_fold(OnChainInvoice_default, log)

----------------------------------------------------------------------------
(* LightningInvoice *)

\* Bolt11Invoice::payment_hash().to_string()
payment_hash(invoice) == IF invoice = "lntbs1" THEN "hash1" ELSE "hash0"

LightningInvoice_default ==
    [invoice_id |-> "", node_id |-> "", r_hash |-> "", invoice |-> "",
     amount |-> Amount_default, received_amount |-> Amount_default,
     overpaid |-> FALSE, paid |-> FALSE]

LightningCommands ==
    [type : {"CreateInvoice"}, invoice_id : InvoiceIds, node_id : {"node1"},
     amount : Amounts, invoice : Bolt11s]
    \cup [type : {"SettleInvoice"}, received_amount : BtcAmounts]

\* a handle that lets SettleInvoice through on a paid invoice
LightningInvoice_handle_settle_again(self, command) ==
    IF command.type = "CreateInvoice"
    THEN IF self.invoice_id # ""
         THEN HandleErr("InvoiceAlreadyExists", <<command.invoice_id>>)
         ELSE IF command.amount.currency # "BTC"
         THEN HandleErr("InvalidCurrency", <<command.amount.currency, "BTC">>)
         ELSE HandleOk(<<[type |-> "InvoiceCreated", invoice_id |-> command.invoice_id,
                          node_id |-> command.node_id,
                          r_hash |-> payment_hash(command.invoice),
                          amount |-> command.amount, invoice |-> command.invoice]>>)
    ELSE HandleOk(<<[type |-> "InvoiceSettled",
                          received_amount |-> command.received_amount,
                          overpaid |-> command.received_amount.cent_amount
                                           > self.amount.cent_amount,
                          paid |-> command.received_amount.cent_amount
                                       >= self.amount.cent_amount]>>)

LightningInvoice_handle(self, command) ==
    IF command.type = "CreateInvoice"
    THEN IF self.invoice_id # ""
         THEN HandleErr("InvoiceAlreadyExists", <<command.invoice_id>>)
         ELSE IF command.amount.currency # "BTC"
         THEN HandleErr("InvalidCurrency", <<command.amount.currency, "BTC">>)
         ELSE HandleOk(<<[type |-> "InvoiceCreated", invoice_id |-> command.invoice_id,
                          node_id |-> command.node_id,
                          r_hash |-> payment_hash(command.invoice),
                          amount |-> command.amount, invoice |-> command.invoice]>>)
    ELSE IF self.paid
         THEN HandleOk(<<>>)
         ELSE HandleOk(<<[type |-> "InvoiceSettled",
                          received_amount |-> command.received_amount,
                          overpaid |-> command.received_amount.cent_amount
                                           > self.amount.cent_amount,
                          paid |-> command.received_amount.cent_amount
                                       >= self.amount.cent_amount]>>)

\* an apply that marks every settled invoice as paid
LightningInvoice_apply_paid_always(self, event) ==
    IF event.type = "InvoiceCreated"
    THEN [self EXCEPT !.invoice_id = event.invoice_id, !.node_id = event.node_id,
                      !.r_hash = event.r_hash, !.amount = event.amount,
                      !.invoice = event.invoice]
    ELSE [self EXCEPT !.received_amount = event.received_amount,
                      !.overpaid = event.overpaid, !.paid = TRUE]

LightningInvoice_apply(self, event) ==
    IF event.type = "InvoiceCreated"
    THEN [self EXCEPT !.invoice_id = event.invoice_id, !.node_id = event.node_id,
                      !.r_hash = event.r_hash, !.amount = event.amount,
                      !.invoice = event.invoice]
    ELSE [self EXCEPT !.received_amount = event.received_amount,
                      !.overpaid = event.overpaid, !.paid = event.paid]

RECURSIVE LightningInvoice_fold(_, _)
LightningInvoice_fold(self, events) ==
    IF events = <<>> THEN self
    ELSE LightningInvoice_fold(LightningInvoice_apply(self, Head(events)), Tail(events))

LightningInvoice_load(log) == LightningInvoice_fold(LightningInvoice_default, log)

----------------------------------------------------------------------------
(* Command execution through the event log (section 4.B): load, handle,    *)
(* append.  load_ok / commit_ok = FALSE: the event store fails.            *)

ExecuteResult(result, error, events, log) ==
    [result |-> result, error |-> error, events |-> events, log |-> log]

\* an execute that appends before it looks at the result of handle: a rejected
\* command and a command without events append the aggregate's last event again
OnChainInvoice_execute_append_first(log, command, load_ok, commit_ok) ==
    IF ~load_ok THEN ExecuteResult("store_error", "", <<>>, log)
    ELSE LET h == OnChainInvoice_handle(OnChainInvoice_load(log), command)
             written == IF h.events = <<>> /\ log # <<>> THEN <<log[Len(log)]>>
                        ELSE h.events
         IN
         IF ~commit_ok THEN ExecuteResult("store_error", "", <<>>, log)
         ELSE IF h.err # "" THEN ExecuteResult("user_error", h.err, <<>>, log \o written)
         ELSE ExecuteResult("ok", "", h.events, log \o written)

OnChainInvoice_execute(log, command, load_ok, commit_ok) ==
    IF ~load_ok THEN ExecuteResult("store_error", "", <<>>, log)
    ELSE LET h == OnChainInvoice_handle(OnChainInvoice_load(log), command) IN
         IF h.err # "" THEN ExecuteResult("user_error", h.err, <<>>, log)
         ELSE IF h.events = <<>> THEN ExecuteResult("ok", "", <<>>, log)
         ELSE IF ~commit_ok THEN ExecuteResult("store_error", "", <<>>, log)
         ELSE ExecuteResult("ok", "", h.events, log \o h.events)

LightningInvoice_execute(log, command, load_ok, commit_ok) ==
    IF ~load_ok THEN ExecuteResult("store_error", "", <<>>, log)
    ELSE LET h == LightningInvoice_handle(LightningInvoice_load(log), command) IN
         IF h.err # "" THEN ExecuteResult("user_error", h.err, <<>>, log)
         ELSE IF h.events = <<>> THEN ExecuteResult("ok", "", <<>>, log)
         ELSE IF ~commit_ok THEN ExecuteResult("store_error", "", <<>>, log)
         ELSE ExecuteResult("ok", "", h.events, log \o h.events)

NoCommand == [type |-> "none"]
NoExecution == [command |-> NoCommand, result |-> "none", error |-> "", events |-> <<>>,
                repeat |-> FALSE]

\* the record of an execution; repeat: the same command was the last one executed
\* on this aggregate, and it had succeeded
Execution(previous, command, r) ==
    [command |-> command, result |-> r.result, error |-> r.error, events |-> r.events,
     repeat |-> (previous.command = command /\ previous.result = "ok")]

----------------------------------------------------------------------------
(* AggSpec: commands executed one after another on OnChainInvoice          *)
(* aggregates or on LightningInvoice aggregates, the event store never     *)
(* failing (the aggregate test framework's given/when/then).               *)

AggInit ==
    /\ agg_kind \in {"OnChainInvoice", "LightningInvoice"}
    /\ oc_log = [a \in Addrs |-> <<>>]
    /\ ln_log = [i \in InvoiceIds |-> <<>>]
    /\ agg_last = [a \in Addrs \cup InvoiceIds |-> NoExecution]
    /\ store_prefix = NoPrefix
    /\ current_offset = <<>>
    /\ offsets_table = <<>>
    /\ os_base = <<>>
    /\ os_max = <<>>
    /\ os_low = <<>>
    /\ os_last = NoCall
    /\ task = <<>>
    /\ NoStart
    /\ NoAux
    /\ watched = None
    /\ pipe_last = <<>>

AggFrame == UNCHANGED <<offset_vars, os_hist_vars, task, start_vars, aux_vars, agg_kind, pipe_vars>>

ExecuteOnChain(a, command) ==
    LET r == OnChainInvoice_execute(oc_log[a], command, TRUE, TRUE) IN
    /\ agg_kind = "OnChainInvoice"
    /\ Len(r.log) <= MaxLog
    /\ oc_log' = [oc_log EXCEPT ![a] = r.log]
    /\ agg_last' = [agg_last EXCEPT ![a] = Execution(agg_last[a], command, r)]
    /\ UNCHANGED ln_log
    /\ AggFrame

ExecuteLightning(i, command) ==
    LET r == LightningInvoice_execute(ln_log[i], command, TRUE, TRUE) IN
    /\ agg_kind = "LightningInvoice"
    /\ Len(r.log) <= MaxLog
    /\ ln_log' = [ln_log EXCEPT ![i] = r.log]
    /\ agg_last' = [agg_last EXCEPT ![i] = Execution(agg_last[i], command, r)]
    /\ UNCHANGED oc_log
    /\ AggFrame

AggNext ==
    \/ \E a \in Addrs, command \in OnChainCommands : ExecuteOnChain(a, command)
    \/ \E i \in InvoiceIds, command \in LightningCommands : ExecuteLightning(i, command)

AggSpec == AggInit /\ [][AggNext]_vars

OnChainState(a) == OnChainInvoice_load(oc_log[a])
LightningState(i) == LightningInvoice_load(ln_log[i])

\* C5: once an OnChainInvoice is paid, no later command emits an event, so that
\* received_amount, underpayment and overpayment never change again.
C5_PaidIsAbsorbing ==
    [][\A a \in Addrs :
          OnChainState(a).paid =>
              /\ oc_log'[a] = oc_log[a]
              /\ OnChainInvoice_load(oc_log'[a]).received_amount
                     = OnChainState(a).received_amount
              /\ OnChainInvoice_load(oc_log'[a]).underpayment = OnChainState(a).underpayment
              /\ OnChainInvoice_load(oc_log'[a]).overpayment = OnChainState(a).overpayment
      ]_vars

\* C6: a SetPending, SetConfirmed or SettleInvoice executed twice in a row on the
\* same aggregate produces no event the second time.
C6_RedeliveryEmitsNothing ==
    \A a \in Addrs \cup InvoiceIds :
        ( /\ agg_last[a].repeat
          /\ agg_last[a].result = "ok"
          /\ agg_last[a].command.type \in {"SetPending", "SetConfirmed", "SettleInvoice"} )
        => agg_last[a].events = <<>>

\* C7: the first event of every non-empty aggregate log is InvoiceCreated.
C7_BornByCreate ==
    /\ \A a \in Addrs : oc_log[a] # <<>> => oc_log[a][1].type = "InvoiceCreated"
    /\ \A i \in InvoiceIds : ln_log[i] # <<>> => ln_log[i][1].type = "InvoiceCreated"

----------------------------------------------------------------------------
(* OnChainTransactionEvent and the event-to-command mapping *)

ConfirmedVariants == {"ReceivedConfirmed", "SentConfirmed"}
UnconfirmedVariants == {"ReceivedUnconfirmed", "SentUnconfirmed"}

OnChainTransaction(variant, tx_id, block_height, node_id, address, amount, confirmations) ==
    [variant |-> variant, tx_id |-> tx_id, block_height |-> block_height,
     node_id |-> node_id, address |-> address, amount |-> amount,
     confirmations |-> confirmations]

\* amount_sat of the delivered events: a payment of the invoiced amount
EventSats == {MaxAmount}

\* the events a node adapter delivers: a confirmed transaction has a block height
\* and at least one confirmation, an unconfirmed one has neither
OnChainTransactionEvents ==
    {OnChainTransaction(v, tx, h, n, a, sat, c) :
        v \in ConfirmedVariants, tx \in TxIds, h \in 0 .. MaxHeight, n \in Nodes,
        a \in Addrs, sat \in EventSats, c \in 1 .. MaxConfirmations}
    \cup
    {OnChainTransaction(v, tx, 0, n, a, sat, 0) :
        v \in UnconfirmedVariants, tx \in TxIds, n \in Nodes, a \in Addrs,
        sat \in EventSats}

\* OnChainTransactionEvent::block_height
block_height(event) ==
    IF event.variant \in ConfirmedVariants THEN Some(event.block_height) ELSE None

\* `bh as u64` of an i32
I32AsU64(x) == IF x < 0 THEN x + 2^U64Bits ELSE x

\* a mapping that takes the node of the event as the aggregate id
OnChainCommand_from_by_node(event) ==
    [id |-> event.node_id,
     command |->
        IF event.variant \in ConfirmedVariants
        THEN [type |-> "SetConfirmed", confirmations |-> I32AsU64(event.confirmations),
              amount |-> Amount_new("BTC", event.amount),
              transaction_id |-> event.tx_id]
        ELSE [type |-> "SetPending", amount |-> Amount_new("BTC", event.amount)]]

\* impl From<OnChainTransactionEvent> for OnChainCommand
OnChainCommand_from(event) ==
    [id |-> event.address,
     command |->
        IF event.variant \in ConfirmedVariants
        THEN [type |-> "SetConfirmed", confirmations |-> I32AsU64(event.confirmations),
              amount |-> Amount_new("BTC", event.amount),
              transaction_id |-> event.tx_id]
        ELSE [type |-> "SetPending", amount |-> Amount_new("BTC", event.amount)]]

----------------------------------------------------------------------------
(* The on-chain consumer *)

OnChainPrefix == "on_chain"
NodeKeys == KeysOf(OnChainPrefix, Nodes)

\* OnChainService::process_event: map, execute, log the outcome, return Ok(())
OnChainService_process_event(log, event, load_ok, commit_ok) ==
    LET command == OnChainCommand_from(event)
        r == OnChainInvoice_execute(log[command.id], command.command, load_ok, commit_ok)
    IN [err |-> FALSE, exec |-> r, log |-> [log EXCEPT ![command.id] = r.log]]

\* the id under which the processor stores the offset: the producing node
processor_offset_id(event) == event.node_id

\* process_event without the set_block_height call
process_event_handler_only(cache, table, log, prefix, event, load_ok, commit_ok, select_ok, upsert_ok) ==
    LET h == OnChainService_process_event(log, event, load_ok, commit_ok) IN
    [err |-> h.err, exec |-> h.exec, log |-> h.log, cache |-> cache, table |-> table,
     set_called |-> FALSE]

\* process_event that keeps one offset for all nodes
process_event_one_key(cache, table, log, prefix, event, load_ok, commit_ok, select_ok, upsert_ok) ==
    LET bh == block_height(event)
        h == OnChainService_process_event(log, event, load_ok, commit_ok)
    IN
    IF bh.some
    THEN LET s == set_offset(cache, table, with_prefix(prefix, "node1"),
                             I32AsU64(bh.v), select_ok, upsert_ok)
         IN [err |-> s.err, exec |-> h.exec, log |-> h.log, cache |-> s.cache,
             table |-> s.table, set_called |-> TRUE]
    ELSE [err |-> FALSE, exec |-> h.exec, log |-> h.log, cache |-> cache, table |-> table,
          set_called |-> FALSE]

\* OnChainTransactionProcessor::process_event: the handler, then set_block_height
\* for an event with a block height
process_event(cache, table, log, prefix, event, load_ok, commit_ok, select_ok, upsert_ok) ==
    LET bh == block_height(event)
        h == OnChainService_process_event(log, event, load_ok, commit_ok)
    IN
    IF h.err
    THEN [err |-> TRUE, exec |-> h.exec, log |-> h.log, cache |-> cache, table |-> table,
          set_called |-> FALSE]
    ELSE IF bh.some
    THEN LET s == set_offset(cache, table, with_prefix(prefix, processor_offset_id(event)),
                             I32AsU64(bh.v), select_ok, upsert_ok)
         IN [err |-> s.err, exec |-> h.exec, log |-> h.log, cache |-> s.cache,
             table |-> s.table, set_called |-> TRUE]
    ELSE [err |-> FALSE, exec |-> h.exec, log |-> h.log, cache |-> cache, table |-> table,
          set_called |-> FALSE]

NoProcessing == [node_id |-> "none", height |-> 0, block_height |-> None,
                 result |-> "none", err |-> FALSE, set_called |-> FALSE]

\* the offset a restarted consumer resumes the node from
StoredOffset(n) == UnwrapOr(select_row(offsets_table, with_prefix(OnChainPrefix, n)), 0)

\* OnChainEventProcessor::start, per node: the resume point read from a new offset
\* store, get_offset(node_id).ok().map(|o| o.offset)
start_height(table, n, select_ok) ==
    LET g == get_offset(new_cache(NodeKeys), table, with_prefix(OnChainPrefix, n), select_ok)
    IN IF g.err THEN None ELSE Some(g.offset)

\* where a call of the event store or of the offset store can fail
ExecuteFaults == {"none", "load", "commit"}
OffsetFaults == {"none", "select", "upsert"}

\* the invoices the merchant creates: for one node, over the largest amount
InvoiceNode == "node1"
InvoiceAmount == Amount_sats(MaxAmount)

PipeInit ==
    /\ store_prefix = OnChainPrefix
    /\ current_offset = new_cache(NodeKeys)
    /\ offsets_table = [k \in NodeKeys |-> None]
    /\ oc_log = [a \in Addrs |-> <<>>]
    /\ watched = None
    /\ pipe_last = NoProcessing
    /\ ln_log = <<>>
    /\ agg_kind = "OnChainInvoice"
    /\ agg_last = <<>>
    /\ os_base = <<>>
    /\ os_max = <<>>
    /\ os_low = <<>>
    /\ os_last = NoCall
    /\ task = <<>>
    /\ NoStart
    /\ NoAux

Init == PipeInit

PipeFrame == UNCHANGED <<store_prefix, os_hist_vars, task, start_vars, aux_vars, ln_log, agg_kind, agg_last>>

\* the merchant creates an invoice for an address of a node
CreateOnChainInvoice(invoice_id, a) ==
    LET command == [type |-> "CreateInvoice", invoice_id |-> invoice_id,
                    node_id |-> InvoiceNode, amount |-> InvoiceAmount, address |-> a]
        r == OnChainInvoice_execute(oc_log[a], command, TRUE, TRUE)
    IN
    /\ r.result = "ok"
    /\ Len(r.log) <= MaxLog
    /\ oc_log' = [oc_log EXCEPT ![a] = r.log]
    /\ UNCHANGED <<current_offset, offsets_table, watched, pipe_last>>
    /\ PipeFrame

\* the result of one turn of the consumer loop
Processed(event, execute_fault, offset_fault) ==
    process_event(current_offset, offsets_table, oc_log, store_prefix, event,
                  execute_fault # "load", execute_fault # "commit",
                  offset_fault # "select", offset_fault # "upsert")

\* one turn of the consumer loop: rcv.recv() returned event, process_event(event),
\* an Err is logged and the loop goes on
Consume(event, execute_fault, offset_fault) ==
    LET r == Processed(event, execute_fault, offset_fault) IN
    /\ Len(r.log[event.address]) <= MaxLog
    /\ oc_log' = r.log
    /\ current_offset' = r.cache
    /\ offsets_table' = r.table
    /\ PipeFrame

\* a turn of the consumer loop, and what it did with the event
ConsumeEvent(event, execute_fault, offset_fault) ==
    LET r == Processed(event, execute_fault, offset_fault) IN
    /\ Consume(event, execute_fault, offset_fault)
    /\ pipe_last' = [node_id |-> event.node_id, height |-> event.block_height,
                     block_height |-> block_height(event), result |-> r.exec.result,
                     err |-> r.err, set_called |-> r.set_called]
    /\ UNCHANGED watched

Next ==
    \/ \E i \in InvoiceIds, a \in Addrs : CreateOnChainInvoice(i, a)
    \/ \E event \in OnChainTransactionEvents, execute_fault \in ExecuteFaults,
          offset_fault \in OffsetFaults :
          ConsumeEvent(event, execute_fault, offset_fault)

Spec == Init /\ [][Next]_vars

----------------------------------------------------------------------------
(* RedeliverySpec: the consumer, with one confirmed event whose command    *)
(* failed in the event store kept in watched until its command is executed *)
(* (a behaviour may start to watch at any such failure).                   *)

Watch(event) ==
    [node_id |-> event.node_id, block_height |-> event.block_height,
     address |-> event.address, tx_id |-> event.tx_id]

ConsumeWatched(event, execute_fault, offset_fault) ==
    LET r == Processed(event, execute_fault, offset_fault) IN
    /\ Consume(event, execute_fault, offset_fault)
    /\ UNCHANGED pipe_last
    /\ \/ /\ event.variant \in ConfirmedVariants
          /\ r.exec.result = "store_error"
          /\ ~watched.some
          /\ watched' = Some(Watch(event))
       \/ /\ watched.some
          /\ event.variant \in ConfirmedVariants
          /\ r.exec.result = "ok"
          /\ watched.v = Watch(event)
          /\ watched' = None
       \/ /\ ~(watched.some /\ event.variant \in ConfirmedVariants
                 /\ r.exec.result = "ok" /\ watched.v = Watch(event))
          /\ UNCHANGED watched

RedeliveryNext ==
    \/ \E i \in InvoiceIds, a \in Addrs : CreateOnChainInvoice(i, a)
    \/ \E event \in OnChainTransactionEvents, execute_fault \in ExecuteFaults,
          offset_fault \in OffsetFaults :
          ConsumeWatched(event, execute_fault, offset_fault)

RedeliverySpec == PipeInit /\ [][RedeliveryNext]_vars

\* C8: a confirmed event (node n, height h) that the consumer received and whose
\* command failed in the event store, and has not been executed since, is still at
\* or above the stored offset of n, so that a restart delivers it again.
C8_FailedEventStaysAboveOffset ==
    watched.some => StoredOffset(watched.v.node_id) <= watched.v.block_height

\* C9: processing an event whose execute failed with an event-store error leaves
\* the offset of the producing node unchanged: the offset a restart resumes from
\* and the offset the running store returns.
C9_TransientFailureKeepsOffset ==
    [][pipe_last'.result = "store_error"
          => LET key == with_prefix(OnChainPrefix, pipe_last'.node_id) IN
             /\ UnwrapOr(select_row(offsets_table', key), 0)
                    = UnwrapOr(select_row(offsets_table, key), 0)
             /\ get_offset(current_offset', offsets_table', key, TRUE).offset
                    = get_offset(current_offset, offsets_table, key, TRUE).offset
      ]_vars

----------------------------------------------------------------------------
(* The offsets after an event was processed (Spec) *)

\* the key of the node whose event was processed last
LastNodeKey == with_prefix(OnChainPrefix, pipe_last.node_id)

\* the offset the running store returns for the node of the last event
LastNodeOffset == get_offset(current_offset, offsets_table, LastNodeKey, TRUE).offset

ProcessedConfirmed == pipe_last'.block_height.some

\* the step left the offsets of the nodes other than n alone
OtherNodesUnchanged(n) ==
    \A m \in Nodes \ {n} :
        LET key == with_prefix(OnChainPrefix, m) IN
        /\ offsets_table'[key] = offsets_table[key]
        /\ current_offset'[key] = current_offset[key]

----------------------------------------------------------------------------
(* StartSpec: OnChainEventProcessor::start with the adapters of the nodes, *)
(* the shared channel and the consumer task.  The steps are the await      *)
(* points: a send into the bounded channel waits while the channel is      *)
(* full.  The event store and the offset store do not fail here.           *)

\* the adapters in the order of self.nodes
NodeList == <<"node1", "node2">>

ConsumerTask == "consumer"

\* a confirmed transaction of node n in block h
StartEvent(n, h) ==
    OnChainTransaction("ReceivedConfirmed", "tx1", h, n, "addr1", MaxAmount, 1)

\* sequences over S of length 0 .. n
SeqUpTo(S, n) == UNION {[1 .. k -> S] : k \in 0 .. n}

\* what get_onchain_transactions(start_height, -1) of node n can return; the adapter
\* forwards the transactions in the order of the node's response
CatchUpResponses(n, from) ==
    {[k \in 1 .. Len(hs) |-> StartEvent(n, hs[k])] :
        hs \in SeqUpTo({h \in 0 .. MaxHeight : h >= from}, MaxCatchUp)}

IdleAdapter == [phase |-> "idle", subscribed |-> FALSE, pending |-> <<>>, live |-> 0]

StartInit ==
    /\ store_prefix = OnChainPrefix
    /\ current_offset = new_cache(NodeKeys)
    /\ offsets_table = [k \in NodeKeys |-> None]
    /\ oc_log = [a \in Addrs |-> <<>>]
    /\ watched = None
    /\ pipe_last = NoProcessing
    /\ ln_log = <<>>
    /\ agg_kind = "OnChainInvoice"
    /\ agg_last = <<>>
    /\ os_base = <<>>
    /\ os_max = <<>>
    /\ os_low = <<>>
    /\ os_last = NoCall
    /\ task = <<>>
    /\ coord = [pc |-> "subscribe", i |-> 1, join_set |-> <<>>, consumer |-> "none"]
    /\ adapters = [n \in Nodes |-> IdleAdapter]
    /\ chan = <<>>
    /\ traffic = [sent |-> [n \in Nodes |-> <<>>], received |-> [n \in Nodes |-> <<>>]]
    /\ NoAux

StartFrame ==
    UNCHANGED <<store_prefix, os_hist_vars, task, ln_log, agg_kind, agg_last, watched,
                pipe_last, aux_vars>>

\* start() goes on to the next node, or to the consumer after the last one
NextNode(c) ==
    IF c.i < Len(NodeList) THEN [c EXCEPT !.pc = "subscribe", !.i = c.i + 1]
    ELSE [c EXCEPT !.pc = "spawn_consumer"]

\* the loop body of a start() that gives up at the first adapter that fails
Subscribe_or_give_up(ok, select_ok, response) ==
    LET n == NodeList[coord.i]
        from == UnwrapOr(start_height(offsets_table, n, select_ok), 0)
    IN
    /\ coord.pc = "subscribe"
    /\ IF ok
       THEN /\ response \in CatchUpResponses(n, from)
            /\ adapters' = [adapters EXCEPT ![n] =
                               [phase |-> "catchup", subscribed |-> TRUE,
                                pending |-> response, live |-> 0]]
            /\ coord' = [coord EXCEPT !.pc = "catch_up"]
       ELSE /\ response = <<>>
            /\ adapters' = [adapters EXCEPT ![n].phase = "failed"]
            /\ coord' = [coord EXCEPT !.pc = "returned"]
    /\ UNCHANGED <<chan, traffic, current_offset, offsets_table, oc_log>>
    /\ StartFrame

\* start(), loop body: get_offset of the node, subscribe_on_chain_transactions.
\* ok = FALSE: the adapter returns Err, which is logged.  ok = TRUE: the adapter
\* fetched response and starts to send it.
Subscribe(ok, select_ok, response) ==
    LET n == NodeList[coord.i]
        from == UnwrapOr(start_height(offsets_table, n, select_ok), 0)
    IN
    /\ coord.pc = "subscribe"
    /\ IF ok
       THEN /\ response \in CatchUpResponses(n, from)
            /\ adapters' = [adapters EXCEPT ![n] =
                               [phase |-> "catchup", subscribed |-> TRUE,
                                pending |-> response, live |-> 0]]
            /\ coord' = [coord EXCEPT !.pc = "catch_up"]
       ELSE /\ response = <<>>
            /\ adapters' = [adapters EXCEPT ![n].phase = "failed"]
            /\ coord' = NextNode(coord)
    /\ UNCHANGED <<chan, traffic, current_offset, offsets_table, oc_log>>
    /\ StartFrame

\* subscribe_on_chain_transactions, catch-up loop: sender.send(event).await
CatchUpSend ==
    LET n == NodeList[coord.i] IN
    /\ coord.pc = "catch_up"
    /\ adapters[n].pending # <<>>
    /\ Len(chan) < ChannelCapacity
    /\ chan' = Append(chan, Head(adapters[n].pending))
    /\ adapters' = [adapters EXCEPT ![n].pending = Tail(@)]
    /\ traffic' = [traffic EXCEPT !.sent[n] =
                      Append(@, [height |-> Head(adapters[n].pending).block_height,
                                 phase |-> "catchup"])]
    /\ UNCHANGED <<coord, current_offset, offsets_table, oc_log>>
    /\ StartFrame

\* subscribe_on_chain_transactions after the catch-up loop: tokio::spawn of the tail
\* task, Ok(handle); start() puts the handle into the task set
SpawnTail ==
    LET n == NodeList[coord.i] IN
    /\ coord.pc = "catch_up"
    /\ adapters[n].pending = <<>>
    /\ adapters' = [adapters EXCEPT ![n].phase = "tail"]
    /\ coord' = NextNode([coord EXCEPT !.join_set = Append(@, n)])
    /\ UNCHANGED <<chan, traffic, current_offset, offsets_table, oc_log>>
    /\ StartFrame

\* start() after the loop: the consumer task is spawned and put into the task set,
\* start() returns (and drops its sender)
SpawnConsumer ==
    /\ coord.pc = "spawn_consumer"
    /\ coord' = [coord EXCEPT !.pc = "returned", !.consumer = "running",
                              !.join_set = Append(@, ConsumerTask)]
    /\ UNCHANGED <<adapters, chan, traffic, current_offset, offsets_table, oc_log>>
    /\ StartFrame

\* tail task of node n: the stream yields a transaction in block h, which is sent
TailSend(n, h) ==
    /\ adapters[n].phase = "tail"
    /\ adapters[n].live < MaxLive
    /\ Len(chan) < ChannelCapacity
    /\ chan' = Append(chan, StartEvent(n, h))
    /\ adapters' = [adapters EXCEPT ![n].live = @ + 1]
    /\ traffic' = [traffic EXCEPT !.sent[n] = Append(@, [height |-> h, phase |-> "live"])]
    /\ UNCHANGED <<coord, current_offset, offsets_table, oc_log>>
    /\ StartFrame

\* tail task of node n ends: no connection to the node, or the stream ended
TailEnd(n) ==
    /\ adapters[n].phase = "tail"
    /\ adapters' = [adapters EXCEPT ![n].phase = "ended"]
    /\ UNCHANGED <<coord, chan, traffic, current_offset, offsets_table, oc_log>>
    /\ StartFrame

\* a sender of the channel is alive: the one of start() or the clone of a tail task
SenderAlive == coord.pc # "returned" \/ \E n \in Nodes : adapters[n].phase = "tail"

\* consumer loop: rcv.recv() returns an event, process_event(event)
ConsumerRecv ==
    LET event == Head(chan)
        r == Processed(event, "none", "none")
    IN
    /\ coord.consumer = "running"
    /\ chan # <<>>
    /\ chan' = Tail(chan)
    /\ traffic' = [traffic EXCEPT !.received[event.node_id] =
                                      Append(@, event.block_height)]
    /\ oc_log' = r.log
    /\ current_offset' = r.cache
    /\ offsets_table' = r.table
    /\ UNCHANGED <<coord, adapters>>
    /\ StartFrame

\* a consumer loop that ends as soon as it finds the channel empty
ConsumerEnd_when_empty ==
    /\ coord.consumer = "running"
    /\ chan = <<>>
    /\ coord' = [coord EXCEPT !.consumer = "ended"]
    /\ UNCHANGED <<adapters, chan, traffic, current_offset, offsets_table, oc_log>>
    /\ StartFrame

\* consumer loop: rcv.recv() returns None, the channel is closed and empty
ConsumerEnd ==
    /\ coord.consumer = "running"
    /\ chan = <<>>
    /\ ~SenderAlive
    /\ coord' = [coord EXCEPT !.consumer = "ended"]
    /\ UNCHANGED <<adapters, chan, traffic, current_offset, offsets_table, oc_log>>
    /\ StartFrame

SubscribeNode ==
    \E ok \in BOOLEAN, select_ok \in BOOLEAN,
       response \in UNION {CatchUpResponses(n, 0) : n \in Nodes} :
        Subscribe(ok, select_ok, response)

StartNext ==
    \/ SubscribeNode
    \/ CatchUpSend
    \/ SpawnTail
    \/ SpawnConsumer
    \/ \E n \in Nodes, h \in 0 .. MaxHeight : TailSend(n, h)
    \/ \E n \in Nodes : TailEnd(n)
    \/ ConsumerRecv
    \/ ConsumerEnd

StartSpec == StartInit /\ [][StartNext]_vars

\* the tokio runtime runs every task that can proceed; the node decides whether and
\* when its stream yields or ends
StartLiveSpec ==
    /\ StartSpec
    /\ WF_vars(SubscribeNode)
    /\ WF_vars(CatchUpSend)
    /\ WF_vars(SpawnTail)
    /\ WF_vars(SpawnConsumer)
    /\ WF_vars(ConsumerRecv)
    /\ WF_vars(ConsumerEnd)

\* the number of catch-up events node n has put into the channel
CatchUpSent(n) ==
    Cardinality({k \in 1 .. Len(traffic.sent[n]) : traffic.sent[n][k].phase = "catchup"})

\* C13: start() eventually returns, and every catch-up event put into the channel
\* is eventually received by the consumer.
C13_StartupNeverDeadlocks ==
    /\ <>(coord.pc = "returned")
    /\ \A n \in Nodes, k \in 1 .. MaxCatchUp :
          (CatchUpSent(n) >= k) ~> (Len(traffic.received[n]) >= k)

\* the tasks start() has put into the task set
JoinSetTasks == {coord.join_set[k] : k \in 1 .. Len(coord.join_set)}

\* C14: when start() has returned, every adapter was asked to subscribe, the
\* consumer was spawned, and the task set holds exactly one task per adapter that
\* subscribed and one consumer task, whichever adapters failed to subscribe.
C14_SubscribeFailureTolerated ==
    coord.pc = "returned"
        => /\ \A n \in Nodes : adapters[n].phase # "idle"
           /\ coord.consumer # "none"
           /\ JoinSetTasks = {n \in Nodes : adapters[n].subscribed} \cup {ConsumerTask}
           /\ Len(coord.join_set) = Cardinality(JoinSetTasks)

\* start() has returned after the first adapter failed and the second subscribed
C14_Witness ==
    /\ coord.pc = "returned"
    /\ adapters[NodeList[1]].phase = "failed"
    /\ adapters[NodeList[2]].subscribed
    /\ coord.join_set = <<NodeList[2], ConsumerTask>>

\* the events of node n that are in the channel, as the consumer will record them
InChannel(n) ==
    LET RECURSIVE heights(_)
        heights(q) ==
            IF q = <<>> THEN <<>>
            ELSE IF Head(q).node_id = n THEN <<Head(q).block_height>> \o heights(Tail(q))
            ELSE heights(Tail(q))
    IN heights(chan)

\* node n sent no catch-up event after a live event
CatchUpBeforeLive(n) ==
    \A j, k \in 1 .. Len(traffic.sent[n]) :
        (j < k /\ traffic.sent[n][j].phase = "live") => traffic.sent[n][k].phase = "live"

\* node n sent its catch-up events in ascending block-height order
CatchUpAscending(n) ==
    \A j, k \in 1 .. Len(traffic.sent[n]) :
        (j < k /\ traffic.sent[n][j].phase = "catchup" /\ traffic.sent[n][k].phase = "catchup")
            => traffic.sent[n][j].height <= traffic.sent[n][k].height

\* the consumer received the events of node n in the order node n sent them
ReceivedInSentOrder(n) ==
    [k \in 1 .. Len(traffic.sent[n]) |-> traffic.sent[n][k].height]
        = traffic.received[n] \o InChannel(n)

\* C16: per node, catch-up events are sent before live events, catch-up events in
\* ascending block-height order, and the consumer receives the events of a node in
\* the order the adapter of the node sent them.
C16_PerNodeOrder ==
    \A n \in Nodes :
        /\ CatchUpBeforeLive(n)
        /\ CatchUpAscending(n)
        /\ ReceivedInSentOrder(n)

----------------------------------------------------------------------------
\* One adapter called on its own: the caller of subscribe_on_chain_transactions
\* owns the receiver of the channel and may drop it at any time.  traffic.sent
\* records every send the adapter attempted and whether it succeeded.

AdapterNodes == {NodeList[1]}

StartHeights == {None} \cup {Some(h) : h \in 0 .. MaxHeight}

AdapterInit ==
    /\ store_prefix = OnChainPrefix
    /\ current_offset = new_cache(NodeKeys)
    /\ offsets_table = [k \in NodeKeys |-> None]
    /\ oc_log = [a \in Addrs |-> <<>>]
    /\ watched = None
    /\ pipe_last = NoProcessing
    /\ ln_log = <<>>
    /\ agg_kind = "OnChainInvoice"
    /\ agg_last = <<>>
    /\ os_base = <<>>
    /\ os_max = <<>>
    /\ os_low = <<>>
    /\ os_last = NoCall
    /\ task = <<>>
    /\ coord = [pc |-> "caller", receiver |-> "open"]
    /\ adapters = [n \in Nodes |-> IdleAdapter]
    /\ chan = <<>>
    /\ traffic = [sent |-> [n \in Nodes |-> <<>>], received |-> [n \in Nodes |-> <<>>]]
    /\ NoAux

AdapterFrame == StartFrame /\ UNCHANGED <<current_offset, offsets_table, oc_log>>

\* sender.send(event).await on the channel: Err when the receiver is gone, else the
\* event is queued (the call waits while the channel is full)
CanSend == coord.receiver = "closed" \/ Len(chan) < ChannelCapacity

Sent(event) == IF coord.receiver = "open" THEN Append(chan, event) ELSE chan

Attempt(event, phase) ==
    [height |-> event.block_height, phase |-> phase, ok |-> coord.receiver = "open"]

\* subscribe_on_chain_transactions: start_subscription(start_height.unwrap_or_default())
AdapterSubscribe(n, start, response) ==
    /\ adapters[n].phase = "idle"
    /\ response \in CatchUpResponses(n, UnwrapOr(start, 0))
    /\ adapters' = [adapters EXCEPT ![n] =
                       [phase |-> "catchup", subscribed |-> TRUE,
                        pending |-> response, live |-> 0]]
    /\ UNCHANGED <<coord, chan, traffic>>
    /\ AdapterFrame

\* catch-up loop: a failed send is printed and the loop goes on to the next event
AdapterCatchUpSend(n) ==
    /\ adapters[n].phase = "catchup"
    /\ adapters[n].pending # <<>>
    /\ CanSend
    /\ chan' = Sent(Head(adapters[n].pending))
    /\ adapters' = [adapters EXCEPT ![n].pending = Tail(@)]
    /\ traffic' = [traffic EXCEPT !.sent[n] =
                      Append(@, Attempt(Head(adapters[n].pending), "catchup"))]
    /\ UNCHANGED coord
    /\ AdapterFrame

\* after the catch-up loop the tail task is spawned, whatever the sends returned
AdapterSpawnTail(n) ==
    /\ adapters[n].phase = "catchup"
    /\ adapters[n].pending = <<>>
    /\ adapters' = [adapters EXCEPT ![n].phase = "tail"]
    /\ UNCHANGED <<coord, chan, traffic>>
    /\ AdapterFrame

\* tail task: a failed send is logged and the loop goes on
AdapterTailSend(n, h) ==
    /\ adapters[n].phase = "tail"
    /\ adapters[n].live < MaxLive
    /\ CanSend
    /\ chan' = Sent(StartEvent(n, h))
    /\ adapters' = [adapters EXCEPT ![n].live = @ + 1]
    /\ traffic' = [traffic EXCEPT !.sent[n] = Append(@, Attempt(StartEvent(n, h), "live"))]
    /\ UNCHANGED coord
    /\ AdapterFrame

AdapterTailEnd(n) ==
    /\ adapters[n].phase = "tail"
    /\ adapters' = [adapters EXCEPT ![n].phase = "ended"]
    /\ UNCHANGED <<coord, chan, traffic>>
    /\ AdapterFrame

\* the caller receives an event
CallerRecv ==
    /\ coord.receiver = "open"
    /\ chan # <<>>
    /\ chan' = Tail(chan)
    /\ traffic' = [traffic EXCEPT !.received[Head(chan).node_id] =
                                      Append(@, Head(chan).block_height)]
    /\ UNCHANGED <<coord, adapters>>
    /\ AdapterFrame

\* the caller drops the receiver; the events still queued are dropped with it
CallerDrop ==
    /\ coord.receiver = "open"
    /\ coord' = [coord EXCEPT !.receiver = "closed"]
    /\ chan' = <<>>
    /\ UNCHANGED <<adapters, traffic>>
    /\ AdapterFrame

AdapterNext ==
    \/ \E n \in AdapterNodes, start \in StartHeights :
          \E response \in CatchUpResponses(n, 0) : AdapterSubscribe(n, start, response)
    \/ \E n \in AdapterNodes : AdapterCatchUpSend(n)
    \/ \E n \in AdapterNodes : AdapterSpawnTail(n)
    \/ \E n \in AdapterNodes, h \in 0 .. MaxHeight : AdapterTailSend(n, h)
    \/ \E n \in AdapterNodes : AdapterTailEnd(n)
    \/ CallerRecv
    \/ CallerDrop

AdapterSpec == AdapterInit /\ [][AdapterNext]_vars

\* C15: after a failed send of a catch-up event the adapter attempts no further
\* send and never starts its tail phase.
C15_SendFailureAbortsAdapter ==
    \A n \in AdapterNodes : \A k \in 1 .. Len(traffic.sent[n]) :
        (traffic.sent[n][k].phase = "catchup" /\ ~traffic.sent[n][k].ok)
            => /\ k = Len(traffic.sent[n])
               /\ adapters[n].phase = "catchup"

----------------------------------------------------------------------------
(* Order of the payment commands of one OnChainInvoice (AggSpec) *)

\* the state of the aggregate after the commands were executed one after another
\* on the log, the event store never failing
RECURSIVE OnChainInvoice_after(_, _)
OnChainInvoice_after(log, commands) ==
    IF commands = <<>> THEN OnChainInvoice_load(log)
    ELSE OnChainInvoice_after(OnChainInvoice_execute(log, Head(commands), TRUE, TRUE).log,
                              Tail(commands))

\* the log of address a holds the creation of the invoice and no payment
CreatedUnpaid(a) ==
    /\ agg_kind = "OnChainInvoice"
    /\ Len(oc_log[a]) = 1
    /\ oc_log[a][1].type = "InvoiceCreated"

SetPendingCommands == [type : {"SetPending"}, amount : BtcAmounts]

\* SetConfirmed of a transaction that has at least one confirmation
SetConfirmedCommands ==
    [type : {"SetConfirmed"}, confirmations : 1 .. MaxConfirmations,
     amount : BtcAmounts, transaction_id : TxIds]

\* C17: on a created invoice, one SetPending and one SetConfirmed (at least one
\* confirmation, amount c, transaction tx) give the same final state in either
\* order: paid, received_amount = c, the flags computed from c, transaction_id = tx.
C17_PendingConfirmedAnyOrder ==
    \A a \in Addrs :
        CreatedUnpaid(a) =>
            \A pending \in SetPendingCommands, confirmed \in SetConfirmedCommands :
                LET invoice == OnChainState(a)
                    pc == OnChainInvoice_after(oc_log[a], <<pending, confirmed>>)
                    cp == OnChainInvoice_after(oc_log[a], <<confirmed, pending>>)
                IN
                /\ pc = cp
                /\ pc.paid
                /\ pc.received_amount = confirmed.amount
                /\ pc.underpayment
                       = (confirmed.amount.cent_amount < invoice.amount.cent_amount)
                /\ pc.overpayment
                       = (confirmed.amount.cent_amount > invoice.amount.cent_amount)
                /\ pc.transaction_id = SomeTx(confirmed.transaction_id)

\* the payment commands the consumers derive from the events of the nodes; a
\* command does not carry the node that observed the payment
PaymentCommands == SetPendingCommands \cup SetConfirmedCommands

\* C18: on a created invoice, any two payment commands (observed by two different
\* nodes) give the same final state in either order.
C18_CommutativeAcrossNodes ==
    \A a \in Addrs :
        CreatedUnpaid(a) =>
            \A first \in PaymentCommands, second \in PaymentCommands :
                OnChainInvoice_after(oc_log[a], <<first, second>>)
                    = OnChainInvoice_after(oc_log[a], <<second, first>>)

\* C19: on a created invoice of amount A without payment, SetPending{a} emits
\* exactly one PaymentPending{a, a < A, a > A}, SetConfirmed{n, a, tx} emits exactly
\* one PaymentConfirmed{a, a < A, a > A, n, tx}; the two flags are never both true,
\* and after PaymentConfirmed the invoice is paid with transaction_id = Some(tx).
C19_PaymentEventsCarryFlags ==
    [][\A a \in Addrs :
          ( /\ CreatedUnpaid(a)
            /\ agg_last'[a] # agg_last[a]
            /\ agg_last'[a].command.type \in {"SetPending", "SetConfirmed"} )
          => LET invoice == OnChainState(a)
                 command == agg_last'[a].command
                 under == command.amount.cent_amount < invoice.amount.cent_amount
                 over == command.amount.cent_amount > invoice.amount.cent_amount
             IN
             /\ agg_last'[a].result = "ok"
             /\ ~(under /\ over)
             /\ oc_log'[a] = oc_log[a] \o agg_last'[a].events
             /\ IF command.type = "SetPending"
                THEN agg_last'[a].events
                         = <<[type |-> "PaymentPending", received_amount |-> command.amount,
                              underpayment |-> under, overpayment |-> over]>>
                ELSE /\ agg_last'[a].events
                            = <<[type |-> "PaymentConfirmed",
                                 received_amount |-> command.amount,
                                 underpayment |-> under, overpayment |-> over,
                                 confirmations |-> command.confirmations,
                                 transaction_id |-> command.transaction_id]>>
                     /\ OnChainInvoice_load(oc_log'[a]).paid
                     /\ OnChainInvoice_load(oc_log'[a]).transaction_id
                            = SomeTx(command.transaction_id)
      ]_vars

\* SetConfirmed of an overpayment was executed on a created invoice without payment
C19_Witness ==
    \E a \in Addrs :
        /\ agg_kind = "OnChainInvoice"
        /\ Len(oc_log[a]) = 2
        /\ oc_log[a][1].type = "InvoiceCreated"
        /\ oc_log[a][2].type = "PaymentConfirmed"
        /\ oc_log[a][2].overpayment
        /\ agg_last[a].command.type = "SetConfirmed"
        /\ agg_last[a].events = <<oc_log[a][2]>>

----------------------------------------------------------------------------
(* CreateInvoice on both aggregates (AggSpec) *)

\* the number of InvoiceCreated events of a log
Creations(log) == Cardinality({k \in 1 .. Len(log) : log[k].type = "InvoiceCreated"})

\* What a step that executes CreateInvoice does.  currency_first: on a created
\* OnChainInvoice a non-BTC amount is reported before the existing invoice.
CreateInvoiceStep(currency_first) ==
    \A k \in (IF agg_kind = "OnChainInvoice" THEN Addrs ELSE InvoiceIds) :
        (agg_last'[k] # agg_last[k] /\ agg_last'[k].command.type = "CreateInvoice")
        => LET on_chain == agg_kind = "OnChainInvoice"
               command == agg_last'[k].command
               log == IF on_chain THEN oc_log[k] ELSE ln_log[k]
               log_after == IF on_chain THEN oc_log'[k] ELSE ln_log'[k]
               self == IF on_chain THEN OnChainInvoice_load(log)
                       ELSE LightningInvoice_load(log)
               h == IF on_chain THEN OnChainInvoice_handle(self, command)
                    ELSE LightningInvoice_handle(self, command)
               created == self.invoice_id # ""
               btc == command.amount.currency = "BTC"
               invalid_currency ==
                   /\ agg_last'[k].error = "InvalidCurrency"
                   /\ h.args = <<command.amount.currency, "BTC">>
               already_exists ==
                   /\ agg_last'[k].error = "InvoiceAlreadyExists"
                   /\ h.args = <<command.invoice_id>>
               invoice_created ==
                   IF on_chain
                   THEN [type |-> "InvoiceCreated", invoice_id |-> command.invoice_id,
                         node_id |-> command.node_id, amount |-> command.amount,
                         address |-> command.address]
                   ELSE [type |-> "InvoiceCreated", invoice_id |-> command.invoice_id,
                         node_id |-> command.node_id,
                         r_hash |-> payment_hash(command.invoice),
                         amount |-> command.amount, invoice |-> command.invoice]
           IN
           /\ created =>
                 /\ agg_last'[k].result = "user_error"
                 /\ log_after = log
                 /\ IF currency_first /\ on_chain /\ ~btc THEN invalid_currency
                    ELSE already_exists
           /\ (~created /\ ~btc) =>
                 /\ agg_last'[k].result = "user_error"
                 /\ log_after = log
                 /\ invalid_currency
           /\ agg_last'[k].result = "ok" =>
                 /\ agg_last'[k].events = <<invoice_created>>
                 /\ log_after = log \o <<invoice_created>>
           /\ Creations(log_after) <= 1

\* C20 as stated: CreateInvoice on a created aggregate fails with
\* InvoiceAlreadyExists(invoice_id of the command), CreateInvoice of a non-BTC
\* amount on a fresh aggregate fails with InvalidCurrency(currency, "BTC"), a
\* successful CreateInvoice emits exactly one InvoiceCreated with the fields of the
\* command, and a log holds at most one InvoiceCreated.
C20_CreateFailsWithAlreadyExists == [][CreateInvoiceStep(FALSE)]_vars

\* C20, amended: as above, except that CreateInvoice of a non-BTC amount on a
\* created OnChainInvoice fails with InvalidCurrency(currency, "BTC"); in every
\* case CreateInvoice on a created aggregate fails and writes no event.
C20_CreateFailsOnceCreated == [][CreateInvoiceStep(TRUE)]_vars

\* CreateInvoice was executed on a created aggregate and failed with
\* InvoiceAlreadyExists, the log holding its one InvoiceCreated
C20_Witness ==
    \E k \in (IF agg_kind = "OnChainInvoice" THEN Addrs ELSE InvoiceIds) :
        /\ agg_last[k].command.type = "CreateInvoice"
        /\ agg_last[k].result = "user_error"
        /\ agg_last[k].error = "InvoiceAlreadyExists"
        /\ Creations(IF agg_kind = "OnChainInvoice" THEN oc_log[k] ELSE ln_log[k]) = 1

----------------------------------------------------------------------------
(* SettleInvoice on a LightningInvoice, confirmations of an OnChainInvoice *)
(* (AggSpec)                                                               *)

\* the log of invoice i holds the creation of the invoice, which is not paid
CreatedNotPaid(i) ==
    /\ agg_kind = "LightningInvoice"
    /\ LightningState(i).invoice_id # ""
    /\ ~LightningState(i).paid

\* C21: on a created LightningInvoice of amount A that is not paid, SettleInvoice{r}
\* emits exactly one InvoiceSettled{r, overpaid = r > A, paid = r >= A}, and after a
\* settle with r < A the invoice is still not paid.
C21_SettleEmitsInvoiceSettled ==
    [][\A i \in InvoiceIds :
          ( /\ CreatedNotPaid(i)
            /\ agg_last'[i] # agg_last[i]
            /\ agg_last'[i].command.type = "SettleInvoice" )
          => LET invoice == LightningState(i)
                 r == agg_last'[i].command.received_amount
             IN
             /\ agg_last'[i].result = "ok"
             /\ agg_last'[i].events
                    = <<[type |-> "InvoiceSettled", received_amount |-> r,
                         overpaid |-> r.cent_amount > invoice.amount.cent_amount,
                         paid |-> r.cent_amount >= invoice.amount.cent_amount]>>
             /\ ln_log'[i] = ln_log[i] \o agg_last'[i].events
             /\ LightningInvoice_load(ln_log'[i]).received_amount = r
             /\ r.cent_amount < invoice.amount.cent_amount
                    => ~LightningInvoice_load(ln_log'[i]).paid
      ]_vars

\* SettleInvoice of less than the invoiced amount was executed on a created invoice
C21_Witness ==
    \E i \in InvoiceIds :
        /\ agg_kind = "LightningInvoice"
        /\ Len(ln_log[i]) = 2
        /\ ln_log[i][1].type = "InvoiceCreated"
        /\ ln_log[i][2].type = "InvoiceSettled"
        /\ ln_log[i][2].received_amount.cent_amount < ln_log[i][1].amount.cent_amount
        /\ agg_last[i].command.type = "SettleInvoice"
        /\ agg_last[i].events = <<ln_log[i][2]>>
        /\ ~LightningState(i).paid

\* C22: once a LightningInvoice is paid, a SettleInvoice emits no event, and paid,
\* received_amount and overpaid keep their values whatever command is executed.
C22_LightningPaidIsAbsorbing ==
    [][\A i \in InvoiceIds :
          (agg_kind = "LightningInvoice" /\ LightningState(i).paid)
          => /\ LightningInvoice_load(ln_log'[i]).paid
             /\ LightningInvoice_load(ln_log'[i]).received_amount
                    = LightningState(i).received_amount
             /\ LightningInvoice_load(ln_log'[i]).overpaid = LightningState(i).overpaid
             /\ (agg_last'[i] # agg_last[i] /\ agg_last'[i].command.type = "SettleInvoice")
                    => /\ agg_last'[i].result = "ok"
                       /\ agg_last'[i].events = <<>>
                       /\ ln_log'[i] = ln_log[i]
      ]_vars

\* a SettleInvoice of another amount was executed on a paid invoice
C22_Witness ==
    \E i \in InvoiceIds :
        /\ agg_kind = "LightningInvoice"
        /\ LightningState(i).paid
        /\ agg_last[i].command.type = "SettleInvoice"
        /\ agg_last[i].command.received_amount # LightningState(i).received_amount
        /\ agg_last[i].result = "ok"
        /\ agg_last[i].events = <<>>

\* C23: the confirmations of an OnChainInvoice never decrease from one state to the
\* next.
C23_ConfirmationsNeverDecrease ==
    [][\A a \in Addrs :
          agg_kind = "OnChainInvoice"
          => OnChainInvoice_load(oc_log'[a]).confirmations >= OnChainState(a).confirmations
      ]_vars

\* a SetConfirmed with fewer confirmations was executed on a confirmed invoice
C23_Witness ==
    \E a \in Addrs :
        /\ agg_kind = "OnChainInvoice"
        /\ OnChainState(a).confirmations > 0
        /\ agg_last[a].command.type = "SetConfirmed"
        /\ agg_last[a].command.confirmations < OnChainState(a).confirmations
        /\ agg_last[a].result = "ok"

----------------------------------------------------------------------------
(* FnSpec: the conversions of the pipeline.  A behaviour applies one        *)
(* conversion to one input; applied records the conversion, its input and  *)
(* its output.                                                             *)

SeenAddresses == Addrs \cup {"addr2"}
SeenTxIds == TxIds \cup {"tx2"}

\* the events to_on_chain_events produces: a confirmed variant has at least one
\* confirmation, an unconfirmed one has none and no block
OnChainEventInputs ==
    {OnChainTransaction(v, tx, h, n, a, sat, c) :
        v \in ConfirmedVariants, tx \in SeenTxIds, h \in 0 .. MaxHeight, n \in Nodes,
        a \in SeenAddresses, sat \in 0 .. MaxAmount, c \in 1 .. MaxConfirmations}
    \cup
    {OnChainTransaction(v, tx, 0, n, a, sat, 0) :
        v \in UnconfirmedVariants, tx \in SeenTxIds, n \in Nodes, a \in SeenAddresses,
        sat \in 0 .. MaxAmount}

\* LightningTransactionEvent::Settled(LightningTransaction)
LightningTransaction(node_id, r_hash, invoice, amount, amount_paid, settle_index) ==
    [variant |-> "Settled", node_id |-> node_id, r_hash |-> r_hash, invoice |-> invoice,
     amount |-> amount, amount_paid |-> amount_paid, settle_index |-> settle_index]

LightningEventInputs ==
    {LightningTransaction(n, payment_hash(b), b, a, paid, k) :
        n \in Nodes, b \in Bolt11s, a \in BtcAmounts, paid \in BtcAmounts,
        k \in 0 .. MaxSettleIndex}

\* impl From<LightningTransactionEvent> for LightningInvoiceCommand
LightningInvoiceCommand_from(event) ==
    [type |-> "SettleInvoice", received_amount |-> event.amount_paid]

----------------------------------------------------------------------------
(* The Lightning adapter: invoice updates of the node (lnrpc::Invoice) *)

LND_SETTLED == 1

\* lnrpc::Invoice.r_hash: the bytes of the payment hash
RHashes == {<<4, 5, 6>>, <<171, 205>>}

\* the invoice updates the stream of a node yields; state: 0 Open, 1 Settled,
\* 2 Canceled, 3 Accepted
InvoiceUpdates ==
    [state : 0 .. 3, r_hash : RHashes, payment_request : Bolt11s,
     value : 0 .. MaxAmount, amt_paid_sat : 0 .. MaxAmount,
     settle_index : 0 .. MaxSettleIndex]

HexDigits == <<"0", "1", "2", "3", "4", "5", "6", "7", "8", "9",
               "a", "b", "c", "d", "e", "f">>

\* Vec<u8>::to_lower_hex_string
RECURSIVE to_lower_hex_string(_)
to_lower_hex_string(bytes) ==
    IF bytes = <<>> THEN ""
    ELSE HexDigits[(Head(bytes) \div 16) + 1] \o HexDigits[(Head(bytes) % 16) + 1]
         \o to_lower_hex_string(Tail(bytes))

\* `x as u64` of an i64
I64AsU64(x) == IF x < 0 THEN x + 2^U64Bits ELSE x

\* to_lightning_event, to_lightning_transaction
to_lightning_event(event, node_id) ==
    LightningTransaction(node_id, to_lower_hex_string(event.r_hash),
                         event.payment_request, Amount_sats(I64AsU64(event.value)),
                         Amount_sats(I64AsU64(event.amt_paid_sat)), event.settle_index)

\* a tail loop that forwards every update but the open ones
lightning_forward_not_open(event, node_id) ==
    IF event.state # 0 THEN <<to_lightning_event(event, node_id)>> ELSE <<>>

\* subscribe_lightning_transactions, body of the tail loop: the events handed to
\* sender.send for one update of the stream
lightning_forward(event, node_id) ==
    IF event.state = LND_SETTLED THEN <<to_lightning_event(event, node_id)>> ELSE <<>>

----------------------------------------------------------------------------
(* The on-chain adapter: transactions of the node (lnrpc::Transaction) *)

Networks == {"signet", "bitcoin"}

\* the address strings of the outputs: two addresses of signet, one of the main
\* network, one that is no address
OutputAddresses == {"addr1", "addr2", "main1", "bad"}

\* the network an address string parses to; "" when Address::from_str fails
NetworkOf(addr) ==
    IF addr \in {"addr1", "addr2"} THEN "signet"
    ELSE IF addr = "main1" THEN "bitcoin" ELSE ""

\* to_address: Address::from_str(addr)?.require_network(network)?
to_address(addr, network) ==
    IF NetworkOf(addr) = "" THEN None
    ELSE IF NetworkOf(addr) # network THEN None
    ELSE Some(addr)

\* lnrpc::OutputDetail: an output pays amount (1 sat or the largest amount) to
\* address
OutputDetails ==
    [address : OutputAddresses, is_our_address : BOOLEAN, amount : {1, MaxAmount}]

\* the transactions a node reports: amount < 0 for a payment sent; a transaction
\* without confirmation has no block
Transactions ==
    {[tx_hash |-> tx, amount |-> a, num_confirmations |-> c, block_height |-> h,
      output_details |-> o] :
        tx \in TxIds, a \in (0 - MaxAmount) .. MaxAmount, c \in 1 .. MaxConfirmations,
        h \in 0 .. MaxHeight, o \in SeqUpTo(OutputDetails, MaxOutputs)}
    \cup
    {[tx_hash |-> tx, amount |-> a, num_confirmations |-> 0, block_height |-> 0,
      output_details |-> o] :
        tx \in TxIds, a \in (0 - MaxAmount) .. MaxAmount,
        o \in SeqUpTo(OutputDetails, MaxOutputs)}

\* i64::unsigned_abs
unsigned_abs(x) == IF x < 0 THEN 0 - x ELSE x

\* the events of the outputs d[1], d[2], ... that pass the filter and whose
\* address is valid
RECURSIVE OutputEvents(_, _, _, _, _)
OutputEvents(tx, chain, node_id, variant, d) ==
    IF d = <<>> THEN <<>>
    ELSE LET address == to_address(Head(d).address, chain)
             rest == OutputEvents(tx, chain, node_id, variant, Tail(d))
         IN IF address.some
            THEN <<OnChainTransaction(variant, tx.tx_hash, tx.block_height, node_id,
                                      address.v, unsigned_abs(tx.amount),
                                      tx.num_confirmations)>> \o rest
            ELSE rest

\* a to_on_chain_events that always takes the outputs of the wallet
to_on_chain_events_ours_only(tx, chain, node_id) ==
    LET received == tx.amount > 0
        confirmed == tx.num_confirmations > 0
        variant == IF confirmed
                   THEN (IF received THEN "ReceivedConfirmed" ELSE "SentConfirmed")
                   ELSE (IF received THEN "ReceivedUnconfirmed" ELSE "SentUnconfirmed")
        Selected(d) == d.is_our_address
    IN OutputEvents(tx, chain, node_id, variant, SelectSeq(tx.output_details, Selected))

\* to_on_chain_events
to_on_chain_events(tx, chain, node_id) ==
    LET received == tx.amount > 0
        confirmed == tx.num_confirmations > 0
        variant == IF confirmed
                   THEN (IF received THEN "ReceivedConfirmed" ELSE "SentConfirmed")
                   ELSE (IF received THEN "ReceivedUnconfirmed" ELSE "SentUnconfirmed")
        Selected(d) == IF received THEN d.is_our_address ELSE ~d.is_our_address
    IN OutputEvents(tx, chain, node_id, variant, SelectSeq(tx.output_details, Selected))

Applied(fn, input, output) == [fn |-> fn, input |-> input, output |-> output]

FnInit ==
    /\ store_prefix = NoPrefix
    /\ current_offset = <<>>
    /\ offsets_table = <<>>
    /\ os_base = <<>>
    /\ os_max = <<>>
    /\ os_low = <<>>
    /\ os_last = NoCall
    /\ task = <<>>
    /\ oc_log = <<>>
    /\ ln_log = <<>>
    /\ agg_kind = "none"
    /\ agg_last = <<>>
    /\ watched = None
    /\ pipe_last = NoProcessing
    /\ NoStart
    /\ NoAux

\* every variable but the event store's is as in FnInit
NoPipeline ==
    /\ store_prefix = NoPrefix
    /\ current_offset = <<>>
    /\ offsets_table = <<>>
    /\ os_base = <<>>
    /\ os_max = <<>>
    /\ os_low = <<>>
    /\ os_last = NoCall
    /\ task = <<>>
    /\ oc_log = <<>>
    /\ ln_log = <<>>
    /\ agg_kind = "none"
    /\ agg_last = <<>>
    /\ watched = None
    /\ pipe_last = NoProcessing
    /\ NoStart

FnFrame ==
    UNCHANGED <<offset_vars, os_hist_vars, task, agg_vars, pipe_vars, start_vars,
                store_vars, queue_vars, invoice_vars>>

\* OnChainService::process_event: let command: OnChainCommand = event.into()
MapOnChainEvent(event) ==
    /\ applied.fn = "none"
    /\ applied' = Applied("OnChainCommand_from", event, OnChainCommand_from(event))
    /\ FnFrame

\* the Lightning service: the command of a settled invoice
MapLightningEvent(event) ==
    /\ applied.fn = "none"
    /\ applied' = Applied("LightningInvoiceCommand_from", event,
                          LightningInvoiceCommand_from(event))
    /\ FnFrame

\* the tail task of the Lightning adapter of node n takes one update of the stream
LightningTailStep(n, event) ==
    /\ applied.fn = "none"
    /\ applied' = Applied("lightning_forward", [node_id |-> n, event |-> event],
                          lightning_forward(event, n))
    /\ FnFrame

\* the on-chain adapter of node n on network chain translates one transaction
TranslateTransaction(n, chain, tx) ==
    /\ applied.fn = "none"
    /\ applied' = Applied("to_on_chain_events",
                          [node_id |-> n, chain |-> chain, tx |-> tx],
                          to_on_chain_events(tx, chain, n))
    /\ FnFrame

FnNext ==
    \/ \E event \in OnChainEventInputs : MapOnChainEvent(event)
    \/ \E event \in LightningEventInputs : MapLightningEvent(event)
    \/ \E n \in Nodes, event \in InvoiceUpdates : LightningTailStep(n, event)
    \/ \E n \in {NodeList[1]}, chain \in Networks, tx \in Transactions :
          TranslateTransaction(n, chain, tx)

FnSpec == FnInit /\ [][FnNext]_vars

\* C24: every on-chain event maps to one command: a confirmed variant to
\* SetConfirmed{confirmations, BTC amount_sat, tx_id}, an unconfirmed one to
\* SetPending{BTC amount_sat}, the aggregate id being the address of the event; a
\* settled Lightning event maps to SettleInvoice{received_amount = amount_paid}.
C24_EventToCommandMapping ==
    /\ applied.fn = "OnChainCommand_from" =>
          LET event == applied.input
              mapped == applied.output
          IN
          /\ mapped.id = event.address
          /\ event.variant \in {"ReceivedConfirmed", "SentConfirmed"} =>
                mapped.command = [type |-> "SetConfirmed",
                                  confirmations |-> event.confirmations,
                                  amount |-> Amount_new("BTC", event.amount),
                                  transaction_id |-> event.tx_id]
          /\ event.variant \in {"ReceivedUnconfirmed", "SentUnconfirmed"} =>
                mapped.command = [type |-> "SetPending",
                                  amount |-> Amount_new("BTC", event.amount)]
          /\ mapped.command.type \in {"SetConfirmed", "SetPending"}
    /\ applied.fn = "LightningInvoiceCommand_from" =>
          applied.output = [type |-> "SettleInvoice",
                            received_amount |-> applied.input.amount_paid]

\* a confirmed outgoing transaction was mapped to SetConfirmed on its address
C24_Witness ==
    /\ applied.fn = "OnChainCommand_from"
    /\ applied.input.variant = "SentConfirmed"
    /\ applied.input.address # applied.input.node_id
    /\ applied.output.command.type = "SetConfirmed"
    /\ applied.output.id = applied.input.address

\* the lowercase hex strings of the payment hashes of the model
LowerHex == [h \in RHashes |-> IF h = <<4, 5, 6>> THEN "040506" ELSE "abcd"]

\* C25: the Lightning adapter forwards an invoice update only when its state is
\* Settled (1), never in state Open (0), Canceled (2) or Accepted (3); a forwarded
\* event carries the settle_index, the lowercase hex r_hash and the amount paid of
\* the update.
C25_OnlySettledForwarded ==
    applied.fn = "lightning_forward" =>
        LET update == applied.input.event
            sent == applied.output
        IN
        /\ update.state \in {0, 2, 3} => sent = <<>>
        /\ sent # <<>> =>
              /\ Len(sent) = 1
              /\ update.state = 1
              /\ sent[1].variant = "Settled"
              /\ sent[1].node_id = applied.input.node_id
              /\ sent[1].settle_index = update.settle_index
              /\ sent[1].r_hash = LowerHex[update.r_hash]
              /\ sent[1].amount_paid = Amount_sats(update.amt_paid_sat)

\* a settled update with letters in its hash was forwarded
C25_Witness ==
    /\ applied.fn = "lightning_forward"
    /\ applied.input.event.state = 1
    /\ applied.input.event.r_hash = <<171, 205>>
    /\ applied.input.event.settle_index > 0
    /\ Len(applied.output) = 1

\* C26: to_on_chain_events yields one event per output selected by direction (the
\* outputs of the wallet when amount > 0, the other outputs otherwise) whose address
\* is valid on the network of the node; all events of a transaction have the variant
\* chosen by (num_confirmations > 0, amount > 0).
C26_OneEventPerSelectedOutput ==
    applied.fn = "to_on_chain_events" =>
        LET tx == applied.input.tx
            events == applied.output
            outputs == tx.output_details
            received == tx.amount > 0
            confirmed == tx.num_confirmations > 0
            taken == {k \in 1 .. Len(outputs) :
                        /\ outputs[k].is_our_address = received
                        /\ NetworkOf(outputs[k].address) = applied.input.chain}
        IN
        /\ Len(events) = Cardinality(taken)
        /\ \A j \in 1 .. Len(events) :
              /\ \E k \in taken : events[j].address = outputs[k].address
              /\ events[j].variant =
                    (IF confirmed /\ received THEN "ReceivedConfirmed"
                     ELSE IF confirmed THEN "SentConfirmed"
                     ELSE IF received THEN "ReceivedUnconfirmed"
                     ELSE "SentUnconfirmed")
        /\ \A k \in 1 .. Len(outputs) :
              NetworkOf(outputs[k].address) # applied.input.chain
                  => \A j \in 1 .. Len(events) : events[j].address # outputs[k].address

\* a payment sent, confirmed, with an output of the wallet, an output of the payee
\* and nothing else, was translated to one SentConfirmed event
C26_Witness ==
    /\ applied.fn = "to_on_chain_events"
    /\ applied.input.tx.amount < 0
    /\ applied.input.tx.num_confirmations > 0
    /\ Len(applied.input.tx.output_details) = 2
    /\ applied.input.tx.output_details[1].is_our_address
    /\ ~applied.input.tx.output_details[2].is_our_address
    /\ Len(applied.output) = 1
    /\ applied.output[1].variant = "SentConfirmed"
    /\ applied.output[1].address = applied.input.tx.output_details[2].address

----------------------------------------------------------------------------
(* EventStoreSpec: two writers execute commands on OnChainInvoice          *)
(* aggregates through the event store of create_cqrs (table payday.events, *)
(* unique index on aggregate and sequence).  An execute loads the events   *)
(* of the aggregate, handles the command, and appends the new events at    *)
(* the sequence numbers after the last one it loaded.                      *)

Writers == {"w1", "w2"}

\* the rows of aggregate a
RowsOf(rows, a) == {r \in rows : r.aggregate_id = a}

\* the last sequence number of aggregate a, 0 when it has no event
current_sequence(rows, a) ==
    LET S == {r.sequence : r \in RowsOf(rows, a)} IN
    IF S = {} THEN 0 ELSE CHOOSE m \in S : \A x \in S : x <= m

\* the events of aggregate a in the order of their sequence numbers
RECURSIVE load_events(_, _)
load_events(rows, a) ==
    IF RowsOf(rows, a) = {} THEN <<>>
    ELSE LET last == CHOOSE r \in RowsOf(rows, a) :
                         \A x \in RowsOf(rows, a) : x.sequence <= r.sequence
         IN Append(load_events(rows \ {last}, a), last.payload)

\* the rows an append writes: the events numbered from the loaded sequence on
NewRows(a, sequence, events) ==
    {[aggregate_id |-> a, sequence |-> sequence + k, payload |-> events[k]] :
        k \in 1 .. Len(events)}

\* an append that does not look at the rows that exist
append_events_unchecked(rows, a, sequence, events) ==
    [ok |-> TRUE, rows |-> rows \cup NewRows(a, sequence, events)]

\* the append of one execute, in one transaction: a row whose aggregate and
\* sequence exist already violates the unique index, and nothing is written
append_events(rows, a, sequence, events) ==
    IF \E n \in NewRows(a, sequence, events) :
           \E r \in RowsOf(rows, a) : r.sequence = n.sequence
    THEN [ok |-> FALSE, rows |-> rows]
    ELSE [ok |-> TRUE, rows |-> rows \cup NewRows(a, sequence, events)]

\* the commands of the writers
StoreCommands ==
    {[type |-> "CreateInvoice", invoice_id |-> "inv1", node_id |-> "node1",
      amount |-> Amount_sats(MaxAmount), address |-> "addr1"],
     [type |-> "SetPending", amount |-> Amount_sats(MaxAmount)],
     [type |-> "SetConfirmed", confirmations |-> 1, amount |-> Amount_sats(MaxAmount),
      transaction_id |-> "tx1"]}

IdleWriter == [pc |-> "idle", aggregate_id |-> "", sequence |-> 0, events |-> <<>>,
               result |-> "none"]

EventStoreInit ==
    /\ NoPipeline
    /\ applied = [fn |-> "none"]
    /\ NoQueue
    /\ NoInvoices
    /\ events_table = {}
    /\ writers = [w \in Writers |-> IdleWriter]

EventStoreFrame ==
    UNCHANGED <<offset_vars, os_hist_vars, task, agg_vars, pipe_vars, start_vars, applied,
                queue_vars, invoice_vars>>

\* execute, first part: load the aggregate, handle the command
LoadAndHandle(w, a, command) ==
    LET h == OnChainInvoice_handle(OnChainInvoice_load(load_events(events_table, a)),
                                   command)
        sequence == current_sequence(events_table, a)
    IN
    /\ writers[w].pc # "loaded"
    /\ sequence + Len(h.events) <= MaxLog
    /\ writers' = [writers EXCEPT ![w] =
                      IF h.err # ""
                      THEN [pc |-> "done", aggregate_id |-> a, sequence |-> sequence,
                            events |-> <<>>, result |-> "user_error"]
                      ELSE IF h.events = <<>>
                      THEN [pc |-> "done", aggregate_id |-> a, sequence |-> sequence,
                            events |-> <<>>, result |-> "ok"]
                      ELSE [pc |-> "loaded", aggregate_id |-> a, sequence |-> sequence,
                            events |-> h.events, result |-> "none"]]
    /\ UNCHANGED events_table
    /\ EventStoreFrame

\* execute, second part: append the events
Commit(w) ==
    LET r == append_events(events_table, writers[w].aggregate_id, writers[w].sequence,
                           writers[w].events)
    IN
    /\ writers[w].pc = "loaded"
    /\ events_table' = r.rows
    /\ writers' = [writers EXCEPT ![w].pc = "done",
                                  ![w].result = IF r.ok THEN "ok" ELSE "conflict"]
    /\ EventStoreFrame

EventStoreNext ==
    \/ \E w \in Writers, a \in Addrs, command \in StoreCommands :
          LoadAndHandle(w, a, command)
    \/ \E w \in Writers : Commit(w)

EventStoreSpec == EventStoreInit /\ [][EventStoreNext]_vars

\* the writer has finished an execute that had events to append
Appended(w) == writers[w].pc = "done" /\ writers[w].events # <<>>

\* C27: the events of every aggregate carry the sequence numbers 1, 2, 3, ...
\* without gap or duplicate; of two executes on the same aggregate that loaded the
\* same sequence, at most one append succeeds and the other observes a conflict.
C27_SequencesContiguousAndUnique ==
    /\ \A a \in Addrs :
          /\ {r.sequence : r \in RowsOf(events_table, a)}
                 = 1 .. Cardinality(RowsOf(events_table, a))
          /\ \A r1, r2 \in RowsOf(events_table, a) :
                 r1.sequence = r2.sequence => r1 = r2
    /\ \A w1, w2 \in Writers :
          ( /\ w1 # w2
            /\ Appended(w1)
            /\ Appended(w2)
            /\ writers[w1].aggregate_id = writers[w2].aggregate_id
            /\ writers[w1].sequence = writers[w2].sequence )
          => /\ ~(writers[w1].result = "ok" /\ writers[w2].result = "ok")
             /\ writers[w1].result \in {"ok", "conflict"}
             /\ writers[w2].result \in {"ok", "conflict"}
             /\ writers[w1].result = "conflict" \/ writers[w2].result = "conflict"

\* two writers loaded the same aggregate at sequence 1; one appended event 2, the
\* other observed the conflict
C27_Witness ==
    \E w1, w2 \in Writers :
        /\ Appended(w1)
        /\ Appended(w2)
        /\ writers[w1].aggregate_id = writers[w2].aggregate_id
        /\ writers[w1].sequence = 1
        /\ writers[w2].sequence = 1
        /\ writers[w1].result = "ok"
        /\ writers[w2].result = "conflict"
        /\ Cardinality(RowsOf(events_table, writers[w1].aggregate_id)) = 2

----------------------------------------------------------------------------
\* the execution recorded last for aggregate k appended nothing: handle returned
\* a domain error or an empty list of events
AppendsNothing(k) ==
    \/ agg_last[k].result = "user_error"
    \/ agg_last[k].result = "ok" /\ agg_last[k].events = <<>>

C28_WitnessNoEvents ==
    \E a \in Addrs :
        /\ agg_last[a].result = "ok"
        /\ agg_last[a].events = <<>>
        /\ agg_last[a].command.type \in {"SetPending", "SetConfirmed"}
        /\ oc_log[a] # <<>>

----------------------------------------------------------------------------
(* TaskSpec: the task queue of payday_surrealdb/src/task.rs.  A task is    *)
(* published with a retry policy; the processor polls a batch, marking it  *)
(* Processing, offers every task of the batch to every handler in turn and *)
(* writes the row that update_status computes from the polled task.        *)
(* A Duration and a DateTime are a number of milliseconds.                 *)

batch_size == 5

TaskIds == {"task1"}
TaskResults == {"Success", "Failed", "Retry"}

Duration_from_secs(secs) == secs * 1000
as_secs(d) == d \div 1000

\* the delays of the retry policies: half a second, and whole seconds
Delays == {500} \cup {Duration_from_secs(secs) : secs \in 1 .. MaxDelaySecs}

Ignore == [type |-> "Ignore"]
Never == [type |-> "Never"]
Fixed(r, d) == [type |-> "Fixed", max |-> r, delay |-> d]
Exponential(r, d) == [type |-> "Exponential", max |-> r, delay |-> d]

RetryTypes ==
    {Ignore, Never}
        \cup {Fixed(r, d) : r \in 0 .. MaxRetry, d \in Delays}
        \cup {Exponential(r, d) : r \in 0 .. MaxRetry, d \in Delays}

is_retry(retry_type) == retry_type.type \in {"Fixed", "Exponential"}

fixed_backoff(offset) == Duration_from_secs(offset)

\* offset as u64 * 2_u64.pow(count): the wrapped value, and whether the power or
\* the product overflowed u64
exponential_backoff(count, offset) ==
    [duration |-> Duration_from_secs((offset * ((2^count) % 2^U64Bits)) % 2^U64Bits),
     overflow |-> 2^count >= 2^U64Bits \/ offset * 2^count >= 2^U64Bits]

next_retry(retry_type, now) ==
    CASE retry_type.type = "Fixed" ->
             Some(now + fixed_backoff(as_secs(retry_type.delay)))
      [] retry_type.type = "Exponential" ->
             Some(now + exponential_backoff(retry_type.max, as_secs(retry_type.delay)).duration)
      [] OTHER -> None

\* the arithmetic of next_retry overflows u64
next_retry_overflows(retry_type) ==
    /\ retry_type.type = "Exponential"
    /\ exponential_backoff(retry_type.max, as_secs(retry_type.delay)).overflow

NoRow == [status |-> "none"]

SurrealTask_new(retry_type) ==
    [status |-> "Pending",
     processed |-> FALSE,
     retry_type |-> retry_type,
     max_retry |-> IF is_retry(retry_type) THEN Some(retry_type.max) ELSE None,
     num_retry |-> 0,
     next_retry |-> None,
     completed_at |-> None]

should_retry(t) ==
    /\ t.max_retry.some
    /\ t.max_retry.v > 0
    /\ t.num_retry < t.max_retry.v
    /\ is_retry(t.retry_type)

update_status(t, result, now) ==
    CASE result = "Success" ->
             [t EXCEPT !.status = "Succeeded", !.completed_at = Some(now),
                       !.processed = TRUE]
      [] result = "Retry" /\ should_retry(t) ->
             [t EXCEPT !.status = "Retrying",
                       !.next_retry = next_retry(t.retry_type, now),
                       !.num_retry = @ + 1]
      [] OTHER ->
             [t EXCEPT !.status = "Failed", !.completed_at = Some(now),
                       !.processed = TRUE]

\* what process passes to update_status for the answer of a handler
handler_result(t, response) ==
    IF response # "Err" THEN response
    ELSE IF should_retry(t) THEN "Retry"
    ELSE "Failed"

NoHandling == [id |-> "", handled |-> FALSE, response |-> "none", num_retry |-> 0,
               now |-> 0]

TaskInit ==
    /\ NoPipeline
    /\ applied = [fn |-> "none"]
    /\ NoStore
    /\ NoInvoices
    /\ task_table = [id \in TaskIds |-> NoRow]
    /\ processor = [pc |-> "poll", batch |-> <<>>, handler |-> 1, last |-> NoHandling,
                    claimed |-> [id \in TaskIds |-> 0],
                    handled |-> [id \in TaskIds |-> 0]]
    /\ clock = 0
    /\ workers = <<>>

TaskFrame ==
    UNCHANGED <<offset_vars, os_hist_vars, task, agg_vars, pipe_vars, start_vars, applied,
                store_vars, workers, invoice_vars>>

\* TaskPublisher::retry, and once and publish with their fixed policies
PublishTask(id, retry_type) ==
    /\ task_table[id] = NoRow
    /\ task_table' = [task_table EXCEPT ![id] = SurrealTask_new(retry_type)]
    /\ UNCHANGED <<processor, clock>>
    /\ TaskFrame

\* the rows task_query selects
Selectable ==
    {id \in DOMAIN task_table :
        /\ task_table[id] # NoRow
        /\ ~task_table[id].processed
        /\ task_table[id].status \in {"Pending", "Retrying"}
        /\ (~task_table[id].next_retry.some \/ task_table[id].next_retry.v < clock)}

BatchLen == IF Cardinality(Selectable) < batch_size THEN Cardinality(Selectable)
            ELSE batch_size

\* the batches the query can return: rows as they were selected, in any order
Batches ==
    {[k \in 1 .. BatchLen |-> [id |-> order[k], task |-> task_table[order[k]]]] :
        order \in {o \in [1 .. BatchLen -> Selectable] :
                      \A j, k \in 1 .. BatchLen : j # k => o[j] # o[k]}}

\* a query that returns the batch and leaves the rows as they are
mark_nothing(table, batch) == table

\* UPDATE $batch SET status = 'Processing'
mark_processing(table, batch) ==
    [id \in DOMAIN table |->
        IF \E k \in 1 .. Len(batch) : batch[k].id = id
        THEN [table[id] EXCEPT !.status = "Processing"]
        ELSE table[id]]

\* query_batch: the selected rows become Processing; a failed query ends the loop
Poll(query_ok) ==
    /\ processor.pc = "poll"
    /\ Selectable # {}
    /\ IF query_ok
       THEN \E batch \in Batches :
               /\ task_table' = mark_processing(task_table, batch)
               /\ processor' =
                      [processor EXCEPT
                          !.pc = "handling", !.batch = batch, !.handler = 1,
                          !.last = NoHandling,
                          !.claimed = [id \in TaskIds |->
                                          IF \E k \in 1 .. Len(batch) : batch[k].id = id
                                          THEN @[id] + 1 ELSE @[id]]]
       ELSE /\ processor' = [processor EXCEPT !.pc = "failed"]
            /\ UNCHANGED task_table
    /\ UNCHANGED clock
    /\ TaskFrame

\* the position of the loop after the current handler
AfterHandler ==
    IF processor.handler < NumHandlers
    THEN [processor EXCEPT !.handler = @ + 1]
    ELSE IF Len(processor.batch) > 1
    THEN [processor EXCEPT !.batch = Tail(@), !.handler = 1]
    ELSE [processor EXCEPT !.pc = "poll", !.batch = <<>>, !.handler = 1]

\* one turn of the inner loop of process: the handler handles the task or not,
\* answers, and the row computed from the polled task is written.  claimed and
\* handled count, per task, the polls that returned it and the handle calls.
HandleTask(handles, response, update_ok, wraps) ==
    LET id == Head(processor.batch).id
        t == Head(processor.batch).task
        result == handler_result(t, response)
        updated == update_status(t, result, clock)
        handling == [id |-> id, handled |-> TRUE, response |-> response,
                     num_retry |-> t.num_retry, now |-> clock]
    IN
    /\ processor.pc = "handling"
    /\ IF ~handles
       THEN /\ processor' = AfterHandler
            /\ UNCHANGED task_table
       ELSE IF result = "Retry" /\ should_retry(t) /\ next_retry_overflows(t.retry_type)
                 /\ ~wraps
       THEN /\ processor' = [processor EXCEPT !.pc = "panicked", !.handled[id] = @ + 1]
            /\ UNCHANGED task_table
       ELSE IF ~update_ok
       THEN /\ processor' = [processor EXCEPT !.pc = "failed", !.handled[id] = @ + 1]
            /\ UNCHANGED task_table
       ELSE /\ processor' = [AfterHandler EXCEPT !.last = handling, !.handled[id] = @ + 1]
            /\ task_table' = [task_table EXCEPT ![id] = updated]
    /\ UNCHANGED clock
    /\ TaskFrame

\* time passes until a scheduled retry is due
Tick ==
    \E id \in TaskIds :
        /\ task_table[id] # NoRow
        /\ task_table[id].status = "Retrying"
        /\ task_table[id].next_retry.some
        /\ task_table[id].next_retry.v >= clock
        /\ clock' = task_table[id].next_retry.v + 1
        /\ UNCHANGED <<task_table, processor>>
        /\ TaskFrame

TaskNext ==
    \/ \E id \in TaskIds, retry_type \in RetryTypes : PublishTask(id, retry_type)
    \/ \E query_ok \in BOOLEAN : Poll(query_ok)
    \/ \E handles, update_ok, wraps \in BOOLEAN, response \in TaskResults \cup {"Err"} :
          HandleTask(handles, response, update_ok, wraps)
    \/ Tick

TaskSpec == TaskInit /\ [][TaskNext]_vars

\* a handler handled task id last, and the row it computed is in the table
HandledLast(id) ==
    /\ task_table[id] # NoRow
    /\ processor.last.id = id
    /\ processor.last.handled

\* C29: a task published with RetryType::Ignore is marked Succeeded once a
\* handler has handled it, whatever the handler returned.
C29_IgnoreAlwaysSucceeded ==
    \A id \in TaskIds :
        (HandledLast(id) /\ task_table[id].retry_type = Ignore)
        => task_table[id].status = "Succeeded"

\* the delay scheduled for task id by the handling recorded last
ScheduledDelay(id) == task_table[id].next_retry.v - processor.last.now

\* C30: the delay scheduled before retry number n (n retries made before) is
\* base * 2^n with Exponential(max, base), and delay with Fixed(max, delay).
C30_RetryDelays ==
    \A id \in TaskIds :
        (HandledLast(id) /\ task_table[id].status = "Retrying")
        => /\ task_table[id].retry_type.type = "Exponential"
              => ScheduledDelay(id)
                     = task_table[id].retry_type.delay * 2^processor.last.num_retry
           /\ task_table[id].retry_type.type = "Fixed"
              => ScheduledDelay(id) = task_table[id].retry_type.delay

\* the part of C30 that holds: Fixed with a delay of whole seconds
FixedWholeSecondsDelay ==
    \A id \in TaskIds :
        ( /\ HandledLast(id)
          /\ task_table[id].status = "Retrying"
          /\ task_table[id].retry_type.type = "Fixed"
          /\ Duration_from_secs(as_secs(task_table[id].retry_type.delay))
                 = task_table[id].retry_type.delay )
        => ScheduledDelay(id) = task_table[id].retry_type.delay

----------------------------------------------------------------------------
\* the processor's loop runs on while it has not ended with an error: it polls,
\* it offers the polled tasks to the handlers, and time passes.  What a handler
\* answers and whether a write succeeds is not in the processor's hands.
TaskLiveSpec ==
    /\ TaskSpec
    /\ WF_vars(Poll(TRUE))
    /\ WF_vars(\E handles, update_ok, wraps \in BOOLEAN,
                  response \in TaskResults \cup {"Err"} :
                      HandleTask(handles, response, update_ok, wraps))
    /\ WF_vars(Tick)

\* task id is Processing and no worker holds it: the processor that polled it is
\* back at its poll, no handler having handled the task
StuckInProcessing(id) ==
    /\ task_table[id] # NoRow
    /\ task_table[id].status = "Processing"
    /\ processor.pc = "poll"

\* C31: a task that stays Processing past its deadline is eventually reclaimed by
\* the running task processor: it is marked Failed or becomes eligible for retry.
C31_StuckTaskReclaimed ==
    \A id \in TaskIds :
        StuckInProcessing(id)
            ~> task_table[id].status \in {"Failed", "Pending", "Retrying"}

----------------------------------------------------------------------------
(* WorkersSpec: two task processors over one task table that holds two     *)
(* tasks more than a batch.  Each processor polls with task_query, one     *)
(* transaction, and then handles the tasks of its batch one by one, with   *)
(* one handler that handles every type.  Time stands still at one second.  *)

WorkerIds == {"worker1", "worker2"}
QueuedTasks == 1 .. batch_size + 2

PendingRow == SurrealTask_new(Never)

\* a task that was retried once and waits for next_retry
RetryingRow(at) ==
    [SurrealTask_new(Fixed(MaxRetry, Duration_from_secs(1))) EXCEPT
        !.status = "Retrying", !.num_retry = 1, !.next_retry = Some(at)]

\* rows that task_query selects: a new task, a task whose retry is due
DueRows == {PendingRow, RetryingRow(0)}

\* rows that it leaves alone: a retry that is due at this very moment or later, a
\* task that is done
OtherRows == {RetryingRow(Duration_from_secs(1)), update_status(PendingRow, "Success", 0)}

IdleWorker == [pc |-> "poll", batch |-> <<>>]

WorkersInit ==
    /\ NoPipeline
    /\ applied = [fn |-> "none"]
    /\ NoStore
    /\ NoInvoices
    /\ task_table \in {t \in [QueuedTasks -> DueRows \cup OtherRows] :
                          /\ \A id \in 1 .. batch_size : t[id] = PendingRow
                          /\ t[batch_size + 1] \in DueRows
                          /\ t[batch_size + 2] \in OtherRows}
    /\ processor = <<>>
    /\ clock = Duration_from_secs(1)
    /\ workers = [w \in WorkerIds |-> IdleWorker]

WorkersFrame ==
    UNCHANGED <<offset_vars, os_hist_vars, task, agg_vars, pipe_vars, start_vars, applied,
                store_vars, processor, clock, invoice_vars>>

\* query_batch of worker w
ClaimBatch(w, query_ok) ==
    /\ workers[w].pc = "poll"
    /\ Selectable # {}
    /\ IF query_ok
       THEN \E batch \in Batches :
               /\ task_table' = mark_processing(task_table, batch)
               /\ workers' = [workers EXCEPT ![w] = [pc |-> "handling", batch |-> batch]]
       ELSE /\ workers' = [workers EXCEPT ![w].pc = "failed"]
            /\ UNCHANGED task_table
    /\ WorkersFrame

\* worker w has its handler handle the next task of its batch and writes the row
WorkerHandle(w, response) ==
    LET id == Head(workers[w].batch).id
        t == Head(workers[w].batch).task
    IN
    /\ workers[w].pc = "handling"
    /\ task_table' = [task_table EXCEPT
                         ![id] = update_status(t, handler_result(t, response), clock)]
    /\ workers' = [workers EXCEPT
                      ![w] = IF Len(workers[w].batch) > 1
                             THEN [pc |-> "handling", batch |-> Tail(workers[w].batch)]
                             ELSE IdleWorker]
    /\ WorkersFrame

WorkersNext ==
    \/ \E w \in WorkerIds, query_ok \in BOOLEAN : ClaimBatch(w, query_ok)
    \/ \E w \in WorkerIds, response \in {"Success", "Retry"} : WorkerHandle(w, response)

WorkersSpec == WorkersInit /\ [][WorkersNext]_vars

\* the tasks worker w holds
Held(w) == {workers[w].batch[k].id : k \in 1 .. Len(workers[w].batch)}

\* the row was selectable when it was polled
WasSelectable(row) ==
    /\ ~row.processed
    /\ row.status \in {"Pending", "Retrying"}
    /\ (~row.next_retry.some \/ row.next_retry.v < clock)

\* C32: each poll claims at most batch_size tasks, only tasks that are
\* unprocessed, Pending or Retrying and due, and sets them to Processing in the
\* same transaction, so that no task is handed to two workers.
C32_AtomicClaim ==
    /\ \A w \in WorkerIds :
          /\ Len(workers[w].batch) <= batch_size
          /\ Cardinality(Held(w)) = Len(workers[w].batch)
          /\ \A k \in 1 .. Len(workers[w].batch) :
                /\ WasSelectable(workers[w].batch[k].task)
                /\ task_table[workers[w].batch[k].id].status = "Processing"
    /\ \A w1, w2 \in WorkerIds : w1 # w2 => Held(w1) \cap Held(w2) = {}

\* one worker holds a full batch, the other holds the task the limit left over,
\* and a task whose retry is not due yet was left alone
C32_Witness ==
    \E w1, w2 \in WorkerIds :
        /\ Len(workers[w1].batch) = batch_size
        /\ Len(workers[w2].batch) = 1
        /\ \E id \in QueuedTasks \ (Held(w1) \cup Held(w2)) :
              /\ task_table[id].status = "Retrying"
              /\ task_table[id].next_retry.v = clock

----------------------------------------------------------------------------
\* every event that was put into the channel has been received
Drained ==
    /\ chan = <<>>
    /\ \A n \in Nodes : Len(traffic.received[n]) = Len(traffic.sent[n])

\* C33: the consumer task ends exactly when the channel is closed and drained.
\* While a sender is alive (start() has not returned, or a tail task runs) the
\* consumer does not end; when it has ended every event sent was received; and
\* once start() has returned and every tail task has ended, the consumer ends.
C33_ConsumerEndsWhenClosedAndDrained ==
    /\ [][coord.consumer' # coord.consumer /\ coord.consumer' = "ended"
             => ~SenderAlive /\ chan = <<>>]_vars
    /\ [](coord.consumer = "ended" => ~SenderAlive /\ Drained)
    /\ ((coord.pc = "returned" /\ ~SenderAlive)
           ~> (coord.consumer = "ended" /\ Drained))

\* the consumer has ended after it received catch-up and live events of a node
\* whose tail task ended
C33_Witness ==
    /\ coord.consumer = "ended"
    /\ \E n \in Nodes :
          /\ adapters[n].phase = "ended"
          /\ \E k \in 1 .. Len(traffic.sent[n]) : traffic.sent[n][k].phase = "live"
          /\ \E k \in 1 .. Len(traffic.sent[n]) : traffic.sent[n][k].phase = "catchup"
          /\ Len(traffic.received[n]) = Len(traffic.sent[n])

----------------------------------------------------------------------------
(* ProcessorSpec: OnChainTransactionProcessor::process_event with a        *)
(* handler that may return an error, over the offset store of the          *)
(* consumer.                                                               *)

\* a process_event that stores the block height before it calls the handler
process_event_set_first(cache, table, prefix, event, handler_ok, select_ok, upsert_ok) ==
    LET bh == block_height(event) IN
    IF bh.some
    THEN LET s == set_offset(cache, table, with_prefix(prefix, processor_offset_id(event)),
                             I32AsU64(bh.v), select_ok, upsert_ok)
         IN [err |-> s.err \/ ~handler_ok, cache |-> s.cache, table |-> s.table,
             set_called |-> TRUE]
    ELSE [err |-> ~handler_ok, cache |-> cache, table |-> table, set_called |-> FALSE]

\* OnChainTransactionProcessor::process_event, the handler being any
\* OnChainTransactionEventHandler: handler_ok tells whether it returned Ok
process_event_with(cache, table, prefix, event, handler_ok, select_ok, upsert_ok) ==
    LET bh == block_height(event) IN
    IF ~handler_ok
    THEN [err |-> TRUE, cache |-> cache, table |-> table, set_called |-> FALSE]
    ELSE IF bh.some
    THEN LET s == set_offset(cache, table, with_prefix(prefix, processor_offset_id(event)),
                             I32AsU64(bh.v), select_ok, upsert_ok)
         IN [err |-> s.err, cache |-> s.cache, table |-> s.table, set_called |-> TRUE]
    ELSE [err |-> FALSE, cache |-> cache, table |-> table, set_called |-> FALSE]

\* one event processed: the handler answers, the offset store may fail
ProcessWithHandler(event, handler_ok, offset_fault) ==
    LET r == process_event_with(current_offset, offsets_table, store_prefix, event,
                                handler_ok, offset_fault # "select",
                                offset_fault # "upsert")
    IN
    /\ current_offset' = r.cache
    /\ offsets_table' = r.table
    /\ pipe_last' = [node_id |-> event.node_id, height |-> event.block_height,
                     block_height |-> block_height(event),
                     result |-> IF handler_ok THEN "ok" ELSE "handler_error",
                     err |-> r.err, set_called |-> r.set_called]
    /\ UNCHANGED <<oc_log, watched>>
    /\ PipeFrame

ProcessorNext ==
    \E event \in OnChainTransactionEvents, handler_ok \in BOOLEAN,
       offset_fault \in OffsetFaults :
        ProcessWithHandler(event, handler_ok, offset_fault)

ProcessorSpec == PipeInit /\ [][ProcessorNext]_vars

\* C34: processing an unconfirmed event changes no stored offset; only a
\* confirmed event whose handler returned Ok causes a set on the offset store,
\* and a handler error skips the set.  (pipe_last' tells what the step processed.)
C34_OnlyConfirmedAndHandledSetsOffset ==
    [][ /\ pipe_last'.set_called
            <=> (pipe_last'.block_height.some /\ pipe_last'.result = "ok")
        /\ ~pipe_last'.set_called => UNCHANGED <<current_offset, offsets_table>>
      ]_vars

\* an offset is stored for the node, and the handler returned an error for a
\* confirmed event of the node above it: no set
C34_Witness ==
    /\ pipe_last.node_id \in Nodes
    /\ select_row(offsets_table, with_prefix(OnChainPrefix, pipe_last.node_id)) # None
    /\ ~pipe_last.set_called
    /\ pipe_last.result = "handler_error"
    /\ pipe_last.block_height.some
    /\ pipe_last.height > StoredOffset(pipe_last.node_id)

\* an offset is stored for the node, and an unconfirmed event of the node was
\* handled: no set
C34_WitnessUnconfirmed ==
    /\ pipe_last.node_id \in Nodes
    /\ select_row(offsets_table, with_prefix(OnChainPrefix, pipe_last.node_id)) # None
    /\ ~pipe_last.set_called
    /\ pipe_last.result = "ok"
    /\ ~pipe_last.block_height.some

----------------------------------------------------------------------------
\* C35: immediately after a successful CreateInvoice on an OnChainInvoice the
\* aggregate is unpaid: paid is false, received_amount and confirmations are 0,
\* whatever commands were executed on the aggregate id before.
C35_CreatedInvoiceIsUnpaid ==
    \A a \in Addrs :
        ( /\ agg_kind = "OnChainInvoice"
          /\ agg_last[a].command.type = "CreateInvoice"
          /\ agg_last[a].result = "ok"
          /\ agg_last[a].events # <<>> )
        => /\ ~OnChainState(a).paid
           /\ OnChainState(a).received_amount.cent_amount = 0
           /\ OnChainState(a).confirmations = 0

----------------------------------------------------------------------------
(* InvoiceSpec: CreateInvoice commands executed one after another on the   *)
(* composite Invoice aggregate (payday_core/src/aggregate/                 *)
(* invoice_aggregate.rs).  The invoice service answers each create_invoice *)
(* call of handle with the details for the payment type or with an error.  *)

PaymentTypes == {"BitcoinLightning", "BitcoinOnChain"}

\* what the node returns for a payment type
InvoiceDetails(payment_type) ==
    IF payment_type = "BitcoinLightning"
    THEN [type |-> "Lightning", invoice |-> CHOOSE b \in Bolt11s : TRUE]
    ELSE [type |-> "OnChain", address |-> CHOOSE a \in Addrs : TRUE]

Invoice_default ==
    [invoice_id |-> "", node_id |-> "", payment_types |-> <<>>,
     invoice_amount |-> Amount_default, received_amount |-> Amount_default,
     underpayment |-> FALSE, overpayment |-> FALSE, paid |-> FALSE,
     invoice_details |-> <<>>]

InvoiceCommands ==
    [type : {"CreateInvoice"}, invoice_id : InvoiceIds, node_id : {"node1"},
     amount : {Amount_sats(MaxAmount)},
     payment_types : UNION {[1 .. k -> PaymentTypes] : k \in 0 .. MaxTypes}]

\* the answers of the service to the calls of one handle: TRUE for Ok(details)
ServiceAnswers(command) == [1 .. Len(command.payment_types) -> BOOLEAN]

\* the loop of handle over the payment types from position k on
RECURSIVE collect_details(_, _, _)
collect_details(payment_types, answers, k) ==
    IF k > Len(payment_types) THEN <<>>
    ELSE IF answers[k]
    THEN <<InvoiceDetails(payment_types[k])>> \o collect_details(payment_types, answers, k + 1)
    ELSE collect_details(payment_types, answers, k + 1)

\* a handle that gives up when the service fails for one of the types
Invoice_handle_all_or_nothing(self, command, answers) ==
    IF command.payment_types = <<>> \/ \E k \in DOMAIN answers : ~answers[k]
    THEN [err |-> "InvoiceDetailsCreation", args |-> <<command.node_id>>,
          events |-> <<>>, calls |-> Len(command.payment_types)]
    ELSE [err |-> "", args |-> <<>>, calls |-> Len(command.payment_types),
          events |-> <<[type |-> "Created", invoice_id |-> command.invoice_id,
                        node_id |-> command.node_id, amount |-> command.amount,
                        payment_types |-> command.payment_types,
                        invoice_details |->
                            [k \in DOMAIN answers |->
                                InvoiceDetails(command.payment_types[k])]]>>]

\* Invoice::handle; calls: the create_invoice calls made to the service
Invoice_handle(self, command, answers) ==
    LET invoice_details == collect_details(command.payment_types, answers, 1) IN
    IF invoice_details = <<>>
    THEN [err |-> "InvoiceDetailsCreation", args |-> <<command.node_id>>,
          events |-> <<>>, calls |-> Len(command.payment_types)]
    ELSE [err |-> "", args |-> <<>>, calls |-> Len(command.payment_types),
          events |-> <<[type |-> "Created", invoice_id |-> command.invoice_id,
                        node_id |-> command.node_id, amount |-> command.amount,
                        payment_types |-> command.payment_types,
                        invoice_details |-> invoice_details]>>]

\* Invoice::apply
Invoice_apply(self, event) ==
    IF event.type = "Created"
    THEN [self EXCEPT !.invoice_id = event.invoice_id, !.node_id = event.node_id,
                      !.invoice_amount = event.amount,
                      !.payment_types = event.payment_types,
                      !.invoice_details = event.invoice_details]
    ELSE [self EXCEPT !.received_amount = event.received_amount,
                      !.underpayment = event.underpayment,
                      !.overpayment = event.overpayment,
                      !.paid = event.paid]

RECURSIVE Invoice_fold(_, _)
Invoice_fold(self, events) ==
    IF events = <<>> THEN self
    ELSE Invoice_fold(Invoice_apply(self, Head(events)), Tail(events))

Invoice_load(log) == Invoice_fold(Invoice_default, log)

\* execute: load the aggregate, handle, append the events
Invoice_execute(log, command, answers) ==
    LET h == Invoice_handle(Invoice_load(log), command, answers) IN
    IF h.err # "" THEN [result |-> "user_error", error |-> h.err, events |-> <<>>,
                        log |-> log, calls |-> h.calls]
    ELSE [result |-> "ok", error |-> "", events |-> h.events, log |-> log \o h.events,
          calls |-> h.calls]

NoInvoiceExecution ==
    [command |-> NoCommand, answers |-> <<>>, result |-> "none", error |-> "",
     events |-> <<>>, calls |-> 0, created_before |-> FALSE]

InvoiceInit ==
    /\ NoPipeline
    /\ applied = [fn |-> "none"]
    /\ NoStore
    /\ NoQueue
    /\ inv_log = [i \in InvoiceIds |-> <<>>]
    /\ inv_last = NoInvoiceExecution

InvoiceFrame ==
    UNCHANGED <<offset_vars, os_hist_vars, task, agg_vars, pipe_vars, start_vars, applied,
                store_vars, queue_vars>>

\* the log holds a Created event
HasCreated(log) == \E k \in 1 .. Len(log) : log[k].type = "Created"

ExecuteInvoice(command, answers) ==
    LET i == command.invoice_id
        r == Invoice_execute(inv_log[i], command, answers)
    IN
    /\ Len(r.log) <= MaxCreates
    /\ inv_log' = [inv_log EXCEPT ![i] = r.log]
    /\ inv_last' = [command |-> command, answers |-> answers, result |-> r.result,
                    error |-> r.error, events |-> r.events, calls |-> r.calls,
                    created_before |-> HasCreated(inv_log[i])]
    /\ InvoiceFrame

InvoiceNext ==
    \E command \in InvoiceCommands :
        \E answers \in ServiceAnswers(command) : ExecuteInvoice(command, answers)

InvoiceSpec == InvoiceInit /\ [][InvoiceNext]_vars

\* the positions of the payment types for which the service succeeded
Succeeded(e) == {k \in 1 .. Len(e.command.payment_types) : e.answers[k]}

\* the details of sequence details are those of the succeeded types, in the order
\* of payment_types
DetailsOfSucceeded(e, details) ==
    /\ Len(details) = Cardinality(Succeeded(e))
    /\ \E pos \in [1 .. Len(details) -> Succeeded(e)] :
          /\ \A j, k \in 1 .. Len(details) : j < k => pos[j] < pos[k]
          /\ \A k \in 1 .. Len(details) :
                details[k] = InvoiceDetails(e.command.payment_types[pos[k]])

\* C36: CreateInvoice emits exactly one Created event iff the service succeeds
\* for at least one requested type; invoice_details then holds the details of the
\* successful types in the order of payment_types; otherwise the command fails
\* with InvoiceDetailsCreation and emits nothing.
C36_CreatedIffSomeTypeSucceeds ==
    inv_last.command # NoCommand =>
        IF Succeeded(inv_last) # {}
        THEN /\ inv_last.result = "ok"
             /\ Len(inv_last.events) = 1
             /\ inv_last.events[1].type = "Created"
             /\ DetailsOfSucceeded(inv_last, inv_last.events[1].invoice_details)
             /\ DetailsOfSucceeded(
                    inv_last,
                    Invoice_load(inv_log[inv_last.command.invoice_id]).invoice_details)
        ELSE /\ inv_last.result = "user_error"
             /\ inv_last.error = "InvoiceDetailsCreation"
             /\ inv_last.events = <<>>

\* two types were requested, the service failed for the first one and succeeded
\* for the second one: one Created event with one detail
C36_Witness ==
    /\ inv_last.command # NoCommand
    /\ Len(inv_last.command.payment_types) = 2
    /\ Succeeded(inv_last) = {2}
    /\ Len(inv_last.events) = 1
    /\ Len(inv_last.events[1].invoice_details) = 1

\* C37: the composite Invoice is created at most once per invoice_id: a
\* CreateInvoice on an aggregate that has a Created event is rejected, emits no
\* second Created event and does not ask the node for new invoice details.
C37_CreatedAtMostOnce ==
    /\ \A i \in InvoiceIds :
          Cardinality({k \in 1 .. Len(inv_log[i]) : inv_log[i][k].type = "Created"}) <= 1
    /\ (inv_last.command # NoCommand /\ inv_last.created_before)
       => /\ inv_last.result = "user_error"
          /\ inv_last.events = <<>>
          /\ inv_last.calls = 0

----------------------------------------------------------------------------
\* C38: for every event emitted by to_on_chain_events, the amount of the event
\* equals the amount of a selected transaction output that pays the event's
\* address, also for a transaction with several selected outputs.
C38_EventAmountIsOutputAmount ==
    applied.fn = "to_on_chain_events" =>
        LET tx == applied.input.tx
            events == applied.output
            outputs == tx.output_details
            received == tx.amount > 0
            taken == {k \in 1 .. Len(outputs) :
                        /\ outputs[k].is_our_address = received
                        /\ NetworkOf(outputs[k].address) = applied.input.chain}
        IN
        \A j \in 1 .. Len(events) :
            \E k \in taken :
                /\ events[j].address = outputs[k].address
                /\ events[j].amount = outputs[k].amount

\* the part of C38 that holds: every event carries the absolute value of the
\* amount of the whole transaction
EventAmountIsTransactionAmount ==
    applied.fn = "to_on_chain_events" =>
        \A j \in 1 .. Len(applied.output) :
            applied.output[j].amount = unsigned_abs(applied.input.tx.amount)

----------------------------------------------------------------------------
\* the handle calls a task with this retry policy may get
MaxHandlings(retry_type) == IF is_retry(retry_type) THEN retry_type.max + 1 ELSE 1

\* C39: retries are bounded: num_retry never exceeds max_retry; a task with
\* Fixed(max, _) or Exponential(max, _) is handled at most max + 1 times, a task
\* with Ignore or Never at most once; and once a task is processed it is never
\* claimed or handled again.
C39_RetriesBounded ==
    /\ [](\A id \in TaskIds :
             task_table[id] # NoRow
             => /\ task_table[id].max_retry.some
                   => task_table[id].num_retry <= task_table[id].max_retry.v
                /\ processor.handled[id] <= MaxHandlings(task_table[id].retry_type))
    /\ [][\A id \in TaskIds :
             (task_table[id] # NoRow /\ task_table[id].processed)
             => /\ processor'.claimed[id] = processor.claimed[id]
                /\ processor'.handled[id] = processor.handled[id]]_vars

\* the part of C39 that holds: as long as every poll of the task was followed by
\* at most one handle call (one handler handles its type), the counts are bounded
BoundedWithOneHandling ==
    \A id \in TaskIds :
        (task_table[id] # NoRow /\ processor.handled[id] <= processor.claimed[id])
        => /\ task_table[id].max_retry.some
              => task_table[id].num_retry <= task_table[id].max_retry.v
           /\ processor.claimed[id] <= MaxHandlings(task_table[id].retry_type)
           /\ processor.handled[id] <= MaxHandlings(task_table[id].retry_type)

====
